---- MODULE Spec2Model ----
(***************************************************************************)
(* Model of src/docx_to_gcweb_html_extended.js: the marker-to-structure    *)
(* reconstruction done by transformPlaceholdersToGCWeb on the children of  *)
(* the <main> container.                                                    *)
(*                                                                         *)
(* A node is a record                                                      *)
(*   id   : the identity of the DOM node (a JS object reference)           *)
(*   tag  : the element name                                               *)
(*   wet  : the data-wet attribute split at its dashes, <<>> when absent   *)
(*          ("table-striped" is <<"table", "striped">>)                    *)
(*   cls  : the class attribute, a sequence of class names, each split at  *)
(*          its dashes like wet                                            *)
(*   attrs: the other attributes, a set of <<name, value>> pairs          *)
(*   txt  : the text directly inside the node, a sequence of tokens        *)
(*          (" " is white space)                                           *)
(*   kids : the child elements, in order                                   *)
(* and the tree is the sequence of the children of <main>.                 *)
(***************************************************************************)
EXTENDS Integers, Sequences, FiniteSets, TLC

VARIABLES pc, tree, sel, snap, prev, last, proc, loop

vars == <<pc, tree, sel, snap, prev, last, proc, loop>>

\* Bounds of the inputs the model explores.
MaxLen == 3
MaxDetailsLen == 5
MaxAccordionLen == 6
MaxAccordionMixLen == 4
MaxPaginationLen == 5
MaxLabelLen == 3
MaxTableLen == 4
MaxListLen == 4
MaxAlertLen == 3
MaxArgs == 3
MaxDocLen == 1
MaxMessages == 1
MaxLoopLen == 4

Stages == <<"alerts", "tables", "details", "accordion", "pagination", "lists", "done">>

Node(id, tag, wet, cls, attrs, txt, kids) ==
    [id |-> id, tag |-> tag, wet |-> wet, cls |-> cls, attrs |-> attrs,
     txt |-> txt, kids |-> kids]

\* Identities of the nodes a pass creates, derived from the node they come from.
\* Input nodes have identities below 1000.
Fresh(id) == 4 * id + 1000
Fresh2(id) == 4 * id + 1001
Fresh3(id) == 4 * id + 1002

----------------------------------------------------------------------------
(* Selectors and tree helpers (cheerio)                                    *)

\* $n.is("div[data-wet='a-b']")
IsMarker(n, a, b) == n.tag = "div" /\ n.wet = <<a, b>>

\* [data-wet^='fam-'] on any element
InFamily(n, fam) == Len(n.wet) >= 2 /\ n.wet[1] = fam

\* div[data-wet^='fam-']
IsDivFamily(n, fam) == n.tag = "div" /\ InFamily(n, fam)

\* [data-wet='list-inline'], [data-wet='list-unstyled']
IsListMarker(n) == n.wet \in {<<"list", "inline">>, <<"list", "unstyled">>}

\* The nodes of a forest in document order.
RECURSIVE Flatten(_)
Flatten(seq) ==
    IF seq = <<>> THEN <<>>
    ELSE <<Head(seq)>> \o Flatten(Head(seq).kids) \o Flatten(Tail(seq))

Ids(seq) == [k \in 1..Len(seq) |-> seq[k].id]

\* $(selector): the matching nodes of the whole document, in document order.
SelectAlerts(t) == Ids(SelectSeq(Flatten(t), LAMBDA n : InFamily(n, "alert")))
SelectTables(t) == Ids(SelectSeq(Flatten(t), LAMBDA n : InFamily(n, "table")))
SelectLists(t) == Ids(SelectSeq(Flatten(t), LAMBDA n : IsListMarker(n)))

\* Position of the node with identity id among seq, 0 when it is not there.
IndexOf(seq, id) ==
    IF \E k \in 1..Len(seq) : seq[k].id = id
    THEN CHOOSE k \in 1..Len(seq) : seq[k].id = id
    ELSE 0

RemoveAt(seq, k) == SubSeq(seq, 1, k - 1) \o SubSeq(seq, k + 1, Len(seq))

\* $(node).remove() for a child of <main>
RemoveNode(seq, id) ==
    IF IndexOf(seq, id) = 0 THEN seq ELSE RemoveAt(seq, IndexOf(seq, id))

\* $(node).replaceWith(new) for a child of <main>
ReplaceNode(seq, id, new) ==
    IF IndexOf(seq, id) = 0 THEN seq
    ELSE [seq EXCEPT ![IndexOf(seq, id)] = new]

\* no sweep at all
KeepMarker(seq, a, b) == seq

\* $main.find("div[data-wet='a-b']").remove(): at every depth
RECURSIVE SweepMarker(_, _, _)
SweepMarker(seq, a, b) ==
    LET kept == SelectSeq(seq, LAMBDA n : ~IsMarker(n, a, b))
    IN [k \in 1..Len(kept) |-> [kept[k] EXCEPT !.kids = SweepMarker(@, a, b)]]

\* no sweep of the family
KeepFamily(seq, fam) == seq

\* $main.find("div[data-wet^='fam-']").remove(): at every depth
RECURSIVE SweepFamily(_, _)
SweepFamily(seq, fam) ==
    LET kept == SelectSeq(seq, LAMBDA n : ~IsDivFamily(n, fam))
    IN [k \in 1..Len(kept) |-> [kept[k] EXCEPT !.kids = SweepFamily(@, fam)]]

\* every descendant paragraph instead of the first one
EveryP(n) == SelectSeq(Flatten(n.kids), LAMBDA d : d.tag = "p")

\* $(el).find("p").first(): the first descendant paragraph, <<>> when none
FirstP(n) ==
    LET ps == SelectSeq(Flatten(n.kids), LAMBDA d : d.tag = "p")
    IN IF ps = <<>> THEN <<>> ELSE <<ps[1]>>

\* $m.text(): the text of the node and of its descendants, in document order
RECURSIVE TextOfKids(_)
TextOf(n) == n.txt \o TextOfKids(n.kids)
TextOfKids(seq) ==
    IF seq = <<>> THEN <<>> ELSE TextOf(Head(seq)) \o TextOfKids(Tail(seq))

\* String.prototype.trim on a token sequence
RECURSIVE TrimLeft(_)
TrimLeft(s) == IF s # <<>> /\ Head(s) = " " THEN TrimLeft(Tail(s)) ELSE s
RECURSIVE TrimRight(_)
TrimRight(s) ==
    IF s # <<>> /\ s[Len(s)] = " " THEN TrimRight(SubSeq(s, 1, Len(s) - 1)) ELSE s
Trim(s) == TrimRight(TrimLeft(s))

\* $m.html(): the serialized inner content
RECURSIVE RenderKids(_)
RenderHtml(n) == n.txt \o RenderKids(n.kids)
RenderKids(seq) ==
    IF seq = <<>> THEN <<>>
    ELSE <<"<", Head(seq).tag, ">">> \o RenderHtml(Head(seq))
         \o <<"</", Head(seq).tag, ">">> \o RenderKids(Tail(seq))

----------------------------------------------------------------------------
(* Alert pass: one step of the .each callback                              *)

AlertSection(el) ==
    Node(Fresh(el.id), "section", <<>>, << <<"alert">>, <<"alert", el.wet[2]>> >>,
         {}, <<>>, FirstP(el))

\* The callback for the marker with identity id, which may sit at any depth; a
\* marker that an earlier step detached from the document changes nothing.
RECURSIVE AlertAt(_, _)
AlertAt(seq, id) ==
    IF IndexOf(seq, id) # 0
    THEN ReplaceNode(seq, id, AlertSection(seq[IndexOf(seq, id)]))
    ELSE [k \in 1..Len(seq) |-> [seq[k] EXCEPT !.kids = AlertAt(@, id)]]

----------------------------------------------------------------------------
(* Table pass: one step of the .each callback                              *)

\* tableClassMap
HasTableClass(kind) ==
    kind \in {<<"table", "basic">>, <<"table", "striped">>, <<"table", "bordered">>,
              <<"table", "hover">>, <<"table", "condensed">>}
tableClassMap(kind) ==
    IF kind = <<"table", "basic">> THEN << <<"table">> >>
    ELSE << <<"table">>, kind >>

\* $marker.nextAll(tag...).first(): index of the first later sibling, 0 when none
NextSibling(seq, k, tags) ==
    IF \E j \in (k + 1)..Len(seq) : seq[j].tag \in tags
    THEN CHOOSE j \in (k + 1)..Len(seq) :
            /\ seq[j].tag \in tags
            /\ \A h \in (k + 1)..(j - 1) : seq[h].tag \notin tags
    ELSE 0

\* $nextTable.replaceWith($wrap.append($nextTable)): the argument is evaluated
\* first, and append MOVES the table under the new, parentless $wrap; replaceWith
\* then replaces the table inside its current parent, which is $wrap itself. The
\* sibling list the table came from loses the table and never receives $wrap.
WrapResponsive(seq, j) == RemoveAt(seq, j)

TableMarkerAt(seq, k) ==
    LET kind == seq[k].wet
        j == NextSibling(seq, k, {"table"})
        annotated ==
            IF j = 0 THEN seq
            ELSE IF kind = <<"table", "responsive">> THEN WrapResponsive(seq, j)
            ELSE IF HasTableClass(kind) THEN [seq EXCEPT ![j].cls = tableClassMap(kind)]
            ELSE seq
    IN RemoveAt(annotated, k)

RECURSIVE TableAt(_, _)
TableAt(seq, id) ==
    IF IndexOf(seq, id) # 0
    THEN TableMarkerAt(seq, IndexOf(seq, id))
    ELSE [k \in 1..Len(seq) |-> [seq[k] EXCEPT !.kids = TableAt(@, id)]]

----------------------------------------------------------------------------
(* List pass: one step of the .each callback                               *)

\* $nextList.addClass(kind)
AddClass(n, c) ==
    IF \E k \in 1..Len(n.cls) : n.cls[k] = c THEN n
    ELSE [n EXCEPT !.cls = Append(@, c)]

ListMarkerAt(seq, k) ==
    LET j == NextSibling(seq, k, {"ul", "ol"})
        annotated == IF j = 0 THEN seq ELSE [seq EXCEPT ![j] = AddClass(@, seq[k].wet)]
    IN RemoveAt(annotated, k)

RECURSIVE ListAt(_, _)
ListAt(seq, id) ==
    IF IndexOf(seq, id) # 0
    THEN ListMarkerAt(seq, IndexOf(seq, id))
    ELSE [k \in 1..Len(seq) |-> [seq[k] EXCEPT !.kids = ListAt(@, id)]]

----------------------------------------------------------------------------
(* buildDetails                                                            *)

\* $("<p/>").html($m.html()): a paragraph holding the inner content of m
Para(m) == Node(Fresh(m.id), "p", <<>>, <<>>, {}, m.txt, m.kids)

\* $("<summary/>").html($m.html())
Summary(m) == Node(Fresh2(m.id), "summary", <<>>, <<>>, {}, m.txt, m.kids)

\* A scan that takes at most one details-content marker.
DetailsRunEndOne(nodes, j) ==
    IF j <= Len(nodes) /\ IsMarker(nodes[j], "details", "content") THEN j + 1 ELSE j

\* The inner while loop: the first index from j on that is not a details-content
RECURSIVE DetailsRunEnd(_, _)
DetailsRunEnd(nodes, j) ==
    IF j <= Len(nodes) /\ IsMarker(nodes[j], "details", "content")
    THEN DetailsRunEnd(nodes, j + 1)
    ELSE j

RECURSIVE RemoveAll(_, _)
RemoveAll(live, doomed) ==
    IF doomed = <<>> THEN live
    ELSE RemoveAll(RemoveNode(live, Head(doomed).id), Tail(doomed))

\* An outer loop that, after the new snapshot, goes on at the old index j
\* instead of i + 1.
RECURSIVE DetailsLoopJump(_, _, _)
DetailsLoopJump(nodes, live, i) ==
    IF i > Len(nodes) THEN live
    ELSE IF IsMarker(nodes[i], "details", "summary")
    THEN LET j == DetailsRunEnd(nodes, i + 1)
             details == Node(Fresh(nodes[i].id), "details", <<>>, <<>>, {}, <<>>,
                             <<Summary(nodes[i])>>
                             \o [k \in 1..(j - i - 1) |-> Para(nodes[i + k])])
             replaced == ReplaceNode(live, nodes[i].id, details)
             refreshed == RemoveAll(replaced, SubSeq(nodes, i + 1, j - 1))
         IN DetailsLoopJump(refreshed, refreshed, j)
    ELSE DetailsLoopJump(nodes, live, i + 1)

\* The outer while loop over the snapshot nodes, editing the live children of
\* <main> and taking a new snapshot after every edit.
RECURSIVE DetailsLoop(_, _, _)
DetailsLoop(nodes, live, i) ==
    IF i > Len(nodes) THEN live
    ELSE IF IsMarker(nodes[i], "details", "summary")
    THEN LET j == DetailsRunEnd(nodes, i + 1)
             details == Node(Fresh(nodes[i].id), "details", <<>>, <<>>, {}, <<>>,
                             <<Summary(nodes[i])>>
                             \o [k \in 1..(j - i - 1) |-> Para(nodes[i + k])])
             replaced == ReplaceNode(live, nodes[i].id, details)
             refreshed == RemoveAll(replaced, SubSeq(nodes, i + 1, j - 1))
         IN DetailsLoop(refreshed, refreshed, i + 1)
    ELSE DetailsLoop(nodes, live, i + 1)

buildDetails(t) == SweepMarker(DetailsLoop(t, t, 1), "details", "content")

----------------------------------------------------------------------------
(* buildAccordion                                                          *)

\* $("<details/>") with its summary taken from a heading marker
HeadingItem(m) == Node(Fresh(m.id), "details", <<>>, <<>>, {}, <<>>, <<Summary(m)>>)

\* A default item labelled with the text of the start marker.
DefaultItemUnlabelled(start) ==
    Node(Fresh2(start.id), "details", <<>>, <<>>, {}, <<>>,
         <<Node(Fresh3(start.id), "summary", <<>>, <<>>, {}, start.txt, <<>>)>>)

\* The item synthesized for a panel met before any heading
DefaultItem(start) ==
    Node(Fresh2(start.id), "details", <<>>, <<>>, {}, <<>>,
         <<Node(Fresh3(start.id), "summary", <<>>, <<>>, {}, <<"Details">>, <<>>)>>)

\* An append that always lands in the first item.
AppendToFirstItem(items, cur, p) == [items EXCEPT ![1].kids = Append(@, p)]

\* $currentItem.append(p): cur is the position in items of $currentItem
AppendToItem(items, cur, p) == [items EXCEPT ![cur].kids = Append(@, p)]

\* A scan that takes every node that is not a heading for a panel.
RECURSIVE AccordionScanGreedy(_, _, _, _, _, _)
AccordionScanGreedy(nodes, live, j, items, cur, start) ==
    IF j > Len(nodes) \/ IsMarker(nodes[j], "accordion", "end")
    THEN [live |-> live, j |-> j, items |-> items]
    ELSE IF IsMarker(nodes[j], "accordion", "heading")
    THEN AccordionScanGreedy(nodes, RemoveNode(live, nodes[j].id), j + 1,
                             Append(items, HeadingItem(nodes[j])), Len(items) + 1, start)
    ELSE LET items1 == IF cur = 0 THEN Append(items, DefaultItem(start)) ELSE items
             cur1 == IF cur = 0 THEN Len(items) + 1 ELSE cur
         IN AccordionScanGreedy(nodes, RemoveNode(live, nodes[j].id), j + 1,
                                AppendToItem(items1, cur1, Para(nodes[j])), cur1, start)

\* The inner while loop. items are the children of $section, cur is the position
\* of $currentItem among them (0 for null).
RECURSIVE AccordionScan(_, _, _, _, _, _)
AccordionScan(nodes, live, j, items, cur, start) ==
    IF j > Len(nodes) \/ IsMarker(nodes[j], "accordion", "end")
    THEN [live |-> live, j |-> j, items |-> items]
    ELSE IF IsMarker(nodes[j], "accordion", "heading")
    THEN AccordionScan(nodes, RemoveNode(live, nodes[j].id), j + 1,
                       Append(items, HeadingItem(nodes[j])), Len(items) + 1, start)
    ELSE IF IsMarker(nodes[j], "accordion", "panel")
    THEN LET items1 == IF cur = 0 THEN Append(items, DefaultItem(start)) ELSE items
             cur1 == IF cur = 0 THEN Len(items) + 1 ELSE cur
         IN AccordionScan(nodes, RemoveNode(live, nodes[j].id), j + 1,
                          AppendToItem(items1, cur1, Para(nodes[j])), cur1, start)
    ELSE IF cur # 0
    THEN AccordionScan(nodes, RemoveNode(live, nodes[j].id), j + 1,
                       AppendToItem(items, cur, Para(nodes[j])), cur, start)
    ELSE [live |-> live, j |-> j, items |-> items]

RECURSIVE AccordionLoop(_, _, _)
AccordionLoop(nodes, live, i) ==
    IF i > Len(nodes) THEN live
    ELSE IF IsMarker(nodes[i], "accordion", "start")
    THEN LET r == AccordionScan(nodes, live, i + 1, <<>>, 0, nodes[i])
             section == Node(Fresh(nodes[i].id), "section", <<>>,
                             << <<"wb", "accordion">> >>, {}, <<>>, r.items)
             replaced == ReplaceNode(r.live, nodes[i].id, section)
             refreshed ==
                 IF r.j <= Len(nodes) /\ IsMarker(nodes[r.j], "accordion", "end")
                 THEN RemoveNode(replaced, nodes[r.j].id)
                 ELSE replaced
         IN AccordionLoop(refreshed, refreshed, i + 1)
    ELSE AccordionLoop(nodes, live, i + 1)

buildAccordion(t) == SweepFamily(AccordionLoop(t, t, 1), "accordion")

----------------------------------------------------------------------------
(* buildPagination                                                         *)

\* a label rule that keeps the white space around the text
LabelUntrimmed(m) == IF Trim(TextOf(m)) # <<>> THEN TextOf(m) ELSE RenderHtml(m)

\* $m.text().trim() || $m.html()
Label(m) == IF Trim(TextOf(m)) # <<>> THEN Trim(TextOf(m)) ELSE RenderHtml(m)

ActiveEntry(m) ==
    Node(Fresh(m.id), "li", <<>>, << <<"active">> >>, {}, <<>>,
         <<Node(Fresh2(m.id), "a", <<>>, <<>>,
                {<<"href", "#">>, <<"aria-current", "page">>}, Label(m), <<>>)>>)

DisabledEntry(m) ==
    Node(Fresh(m.id), "li", <<>>, << <<"disabled">> >>, {}, <<>>,
         <<Node(Fresh2(m.id), "span", <<>>, <<>>, {}, Label(m), <<>>)>>)

ItemEntry(m) ==
    Node(Fresh(m.id), "li", <<>>, <<>>, {}, <<>>,
         <<Node(Fresh2(m.id), "a", <<>>, <<>>, {<<"href", "#">>}, Label(m), <<>>)>>)

\* a scan that steps over a node that is no sub-marker instead of stopping there
RECURSIVE PaginationScanSkipping(_, _, _, _)
PaginationScanSkipping(nodes, live, j, entries) ==
    IF j > Len(nodes) \/ IsMarker(nodes[j], "pagination", "end")
    THEN [live |-> live, j |-> j, entries |-> entries]
    ELSE IF IsMarker(nodes[j], "pagination", "active")
    THEN PaginationScanSkipping(nodes, RemoveNode(live, nodes[j].id), j + 1,
                                Append(entries, ActiveEntry(nodes[j])))
    ELSE IF IsMarker(nodes[j], "pagination", "disabled")
    THEN PaginationScanSkipping(nodes, RemoveNode(live, nodes[j].id), j + 1,
                                Append(entries, DisabledEntry(nodes[j])))
    ELSE IF IsMarker(nodes[j], "pagination", "item")
    THEN PaginationScanSkipping(nodes, RemoveNode(live, nodes[j].id), j + 1,
                                Append(entries, ItemEntry(nodes[j])))
    ELSE PaginationScanSkipping(nodes, live, j + 1, entries)

RECURSIVE PaginationScan(_, _, _, _)
PaginationScan(nodes, live, j, entries) ==
    IF j > Len(nodes) \/ IsMarker(nodes[j], "pagination", "end")
    THEN [live |-> live, j |-> j, entries |-> entries]
    ELSE IF IsMarker(nodes[j], "pagination", "active")
    THEN PaginationScan(nodes, RemoveNode(live, nodes[j].id), j + 1,
                        Append(entries, ActiveEntry(nodes[j])))
    ELSE IF IsMarker(nodes[j], "pagination", "disabled")
    THEN PaginationScan(nodes, RemoveNode(live, nodes[j].id), j + 1,
                        Append(entries, DisabledEntry(nodes[j])))
    ELSE IF IsMarker(nodes[j], "pagination", "item")
    THEN PaginationScan(nodes, RemoveNode(live, nodes[j].id), j + 1,
                        Append(entries, ItemEntry(nodes[j])))
    ELSE [live |-> live, j |-> j, entries |-> entries]

RECURSIVE PaginationLoop(_, _, _)
PaginationLoop(nodes, live, i) ==
    IF i > Len(nodes) THEN live
    ELSE IF IsMarker(nodes[i], "pagination", "start")
    THEN LET r == PaginationScan(nodes, live, i + 1, <<>>)
             ul == Node(Fresh2(nodes[i].id), "ul", <<>>, << <<"pagination">> >>, {},
                        <<>>, r.entries)
             nav == Node(Fresh(nodes[i].id), "nav", <<>>, <<>>,
                         {<<"aria-label", "Pagination">>}, <<>>, <<ul>>)
             replaced == ReplaceNode(r.live, nodes[i].id, nav)
             refreshed ==
                 IF r.j <= Len(nodes) /\ IsMarker(nodes[r.j], "pagination", "end")
                 THEN RemoveNode(replaced, nodes[r.j].id)
                 ELSE replaced
         IN PaginationLoop(refreshed, refreshed, i + 1)
    ELSE PaginationLoop(nodes, live, i + 1)

buildPagination(t) == SweepFamily(PaginationLoop(t, t, 1), "pagination")

----------------------------------------------------------------------------
(* The .each passes as a whole: the selection is taken once, before the    *)
(* first callback runs.                                                    *)

RECURSIVE AlertsFrom(_, _)
AlertsFrom(t, s) == IF s = <<>> THEN t ELSE AlertsFrom(AlertAt(t, Head(s)), Tail(s))
alertPass(t) == AlertsFrom(t, SelectAlerts(t))

RECURSIVE TablesFrom(_, _)
TablesFrom(t, s) == IF s = <<>> THEN t ELSE TablesFrom(TableAt(t, Head(s)), Tail(s))
tablePass(t) == TablesFrom(t, SelectTables(t))

RECURSIVE ListsFrom(_, _)
ListsFrom(t, s) == IF s = <<>> THEN t ELSE ListsFrom(ListAt(t, Head(s)), Tail(s))
listPass(t) == ListsFrom(t, SelectLists(t))

----------------------------------------------------------------------------
(* Inputs: what the style map of the converter can put under <body>.       *)
(* A shape is a node without its identity; MkSeq numbers the nodes of a    *)
(* sequence of shapes 1, 2, ... and the children of node n 10n+1, 10n+2... *)

\* div[data-wet='a-b'] holding the paragraph's text, or the given children
M(a, b) == [k |-> "marker", a |-> a, b |-> b, in |-> <<>>]
MWith(a, b, in) == [k |-> "marker", a |-> a, b |-> b, in |-> in]
\* the same marker with white space around its text
MPadded(a, b) == [k |-> "padded", a |-> a, b |-> b, in |-> <<>>]
\* the same marker with no text, only an inline element
MMarkup(a, b) == [k |-> "markup", a |-> a, b |-> b, in |-> <<>>]
\* a plain element <tag class=cls> with text
El(tag, c) == [k |-> "elem", a |-> tag, b |-> c, in |-> <<>>]
\* an element that holds other nodes (a table cell, a list item, a block quote)
Box(in) == [k |-> "box", a |-> "blockquote", b |-> "", in |-> in]
\* a.btn[data-wet='btn']
Btn == [k |-> "btn", a |-> "a", b |-> "", in |-> <<>>]

RECURSIVE MkSeq(_, _)
Mk(sh, id) ==
    CASE sh.k = "marker" ->
            Node(id, "div", <<sh.a, sh.b>>, <<>>, {},
                 IF sh.in = <<>> THEN <<ToString(id)>> ELSE <<>>, MkSeq(sh.in, 10 * id))
      [] sh.k = "padded" ->
            Node(id, "div", <<sh.a, sh.b>>, <<>>, {}, <<" ", ToString(id), " ">>, <<>>)
      [] sh.k = "markup" ->
            Node(id, "div", <<sh.a, sh.b>>, <<>>, {}, <<" ">>,
                 <<Node(10 * id + 1, "br", <<>>, <<>>, {}, <<>>, <<>>)>>)
      [] sh.k = "elem" ->
            Node(id, sh.a, <<>>, IF sh.b = "" THEN <<>> ELSE << <<sh.b>> >>, {},
                 <<ToString(id)>>, <<>>)
      [] sh.k = "box" ->
            Node(id, sh.a, <<>>, <<>>, {}, <<>>, MkSeq(sh.in, 10 * id))
      [] sh.k = "btn" ->
            Node(id, "a", <<"btn">>, << <<"btn">>, <<"btn", "primary">> >>,
                 {<<"href", "#">>, <<"role", "button">>}, <<ToString(id)>>, <<>>)
MkSeq(shapes, base) == [k \in 1..Len(shapes) |-> Mk(shapes[k], base + k)]

SeqsUpTo(S, n) == UNION {[1..k -> S] : k \in 0..n}
Inputs(S, n) == {MkSeq(s, 0) : s \in SeqsUpTo(S, n)}

P == El("p", "")
Table == El("table", "")
AlertInfo == MWith("alert", "info", <<P>>)

DetailsShapes ==
    {M("details", "summary"), M("details", "content"), P,
     Box(<<M("details", "content")>>), Box(<<M("details", "summary")>>)}

AccordionShapes ==
    {M("accordion", "start"), M("accordion", "heading"), M("accordion", "panel"),
     M("accordion", "end"), P}
AccordionMixShapes ==
    AccordionShapes \cup {Box(<<M("accordion", "panel")>>), M("list", "inline"), Btn}

PaginationShapes ==
    {M("pagination", "start"), M("pagination", "item"), M("pagination", "active"),
     M("pagination", "disabled"), M("pagination", "end"), P,
     Box(<<M("pagination", "item")>>)}
LabelShapes ==
    {M("pagination", "start"), M("pagination", "end"), MPadded("pagination", "item"),
     MMarkup("pagination", "item"), MPadded("pagination", "active"),
     MMarkup("pagination", "disabled")}

TableShapes ==
    {M("table", "striped"), M("table", "basic"), M("table", "responsive"), Table,
     El("table", "old"), P, Box(<<M("table", "bordered"), P, Table>>)}
ListShapes ==
    {M("list", "inline"), M("list", "unstyled"), El("ul", ""), El("ol", "old"), P,
     Box(<<M("list", "inline"), El("ul", "")>>)}

AlertShapes ==
    {AlertInfo, MWith("alert", "warning", <<P, P>>), M("alert", "danger"),
     MWith("alert", "success", <<Box(<<P>>), P>>), P, Box(<<AlertInfo, P>>)}

MixedShapes ==
    {AlertInfo, M("table", "responsive"), Table, M("details", "summary"),
     M("details", "content"), M("accordion", "start"), M("accordion", "panel"),
     M("pagination", "start"), M("pagination", "item"), M("list", "inline"),
     El("ul", ""), P, Box(<<M("details", "summary")>>)}

----------------------------------------------------------------------------
(* The state machine.                                                      *)
(*   pc   : the pass about to run or running                               *)
(*   tree : the children of <main>                                         *)
(*   sel  : what is left of the selection an .each pass iterates           *)
(*   snap : the tree at the start of every pass entered so far, and at the *)
(*          end ("done")                                                   *)
(*   prev : the tree before the last step                                  *)
(*   last : the marker the last .each callback ran on (0: none)            *)

\* The state in which pass Stages[s] starts on tree t, the earlier passes having
\* found none of their markers in t.
\* The state of the process that runs main:
\*   at      : where main is
\*   argv    : process.argv from index 2 on
\*   input   : args.input, <<>> for null
\*   output  : args.output, <<>> for null and undefined
\*   messages: the number of messages the converter returned
\*   html    : the value convertDocxToHtml returned, <<>> before that
\*   out     : what was written to the output destination, in order
\*   trace   : the calls and the lines on the error stream so far, in order
\*   status  : the exit status, -1 while the process runs
Process(at, argv, input, output, messages, html, out, trace, status) ==
    [at |-> at, argv |-> argv, input |-> input, output |-> output,
     messages |-> messages, html |-> html, out |-> out, trace |-> trace,
     status |-> status]

\* transformPlaceholdersToGCWeb called on its own, outside main
Called == Process("called", <<>>, <<>>, <<>>, 0, <<>>, <<>>, <<>>, -1)

\* The state of the loops of a builder, for the model that takes them one
\* iteration at a time:
\*   at   : "idle" outside a builder, "outer" at the test of the outer while,
\*          "inner" at the test of the inner while, "close" after the inner while
\*   nodes: the snapshot array
\*   i, j : the two indices, counted from 1
\*   acc  : the children built so far for the element that replaces the marker
\*   cur  : the position of $currentItem in acc, 0 for null
Loop(at, nodes, i, j, acc, cur) ==
    [at |-> at, nodes |-> nodes, i |-> i, j |-> j, acc |-> acc, cur |-> cur]
NoLoop == Loop("idle", <<>>, 0, 0, <<>>, 0)

StartAt(s, t) ==
    /\ proc = Called
    /\ loop = NoLoop
    /\ pc = Stages[s]
    /\ tree = t
    /\ sel = CASE Stages[s] = "alerts" -> SelectAlerts(t)
               [] Stages[s] = "tables" -> SelectTables(t)
               [] Stages[s] = "lists" -> SelectLists(t)
               [] OTHER -> <<>>
    /\ snap = [n \in {Stages[h] : h \in 1..s} |-> t]
    /\ prev = t
    /\ last = 0

Init == \E t \in Inputs(MixedShapes, MaxLen) : StartAt(1, t)

AlertStep ==
    /\ pc = "alerts" /\ sel # <<>>
    /\ UNCHANGED <<proc, loop>>
    /\ tree' = AlertAt(tree, Head(sel))
    /\ sel' = Tail(sel)
    /\ prev' = tree
    /\ last' = Head(sel)
    /\ UNCHANGED <<pc, snap>>

AlertsDone ==
    /\ pc = "alerts" /\ sel = <<>>
    /\ UNCHANGED <<proc, loop>>
    /\ pc' = "tables"
    /\ sel' = SelectTables(tree)
    /\ snap' = snap @@ ("tables" :> tree)
    /\ UNCHANGED <<tree, prev, last>>

TableStep ==
    /\ pc = "tables" /\ sel # <<>>
    /\ UNCHANGED <<proc, loop>>
    /\ tree' = TableAt(tree, Head(sel))
    /\ sel' = Tail(sel)
    /\ prev' = tree
    /\ last' = Head(sel)
    /\ UNCHANGED <<pc, snap>>

TablesDone ==
    /\ pc = "tables" /\ sel = <<>>
    /\ UNCHANGED <<proc, loop>>
    /\ pc' = "details"
    /\ snap' = snap @@ ("details" :> tree)
    /\ UNCHANGED <<tree, sel, prev, last>>

BuildDetails ==
    /\ pc = "details"
    /\ UNCHANGED <<proc, loop>>
    /\ tree' = buildDetails(tree)
    /\ pc' = "accordion"
    /\ snap' = snap @@ ("accordion" :> tree')
    /\ prev' = tree
    /\ last' = 0
    /\ UNCHANGED sel

BuildAccordion ==
    /\ pc = "accordion"
    /\ UNCHANGED <<proc, loop>>
    /\ tree' = buildAccordion(tree)
    /\ pc' = "pagination"
    /\ snap' = snap @@ ("pagination" :> tree')
    /\ prev' = tree
    /\ last' = 0
    /\ UNCHANGED sel

BuildPagination ==
    /\ pc = "pagination"
    /\ UNCHANGED <<proc, loop>>
    /\ tree' = buildPagination(tree)
    /\ pc' = "lists"
    /\ sel' = SelectLists(tree')
    /\ snap' = snap @@ ("lists" :> tree')
    /\ prev' = tree
    /\ last' = 0

ListStep ==
    /\ pc = "lists" /\ sel # <<>>
    /\ UNCHANGED <<proc, loop>>
    /\ tree' = ListAt(tree, Head(sel))
    /\ sel' = Tail(sel)
    /\ prev' = tree
    /\ last' = Head(sel)
    /\ UNCHANGED <<pc, snap>>

ListsDone ==
    /\ pc = "lists" /\ sel = <<>>
    /\ UNCHANGED <<proc, loop>>
    /\ pc' = "done"
    /\ snap' = snap @@ ("done" :> tree)
    /\ UNCHANGED <<tree, sel, prev, last>>

Next ==
    \/ AlertStep \/ AlertsDone \/ TableStep \/ TablesDone
    \/ BuildDetails \/ BuildAccordion \/ BuildPagination
    \/ ListStep \/ ListsDone

\* transformPlaceholdersToGCWeb on every input
Spec == Init /\ [][Next]_vars

\* buildDetails alone
InitDetails == \E t \in Inputs(DetailsShapes, MaxDetailsLen) : StartAt(3, t)
SpecDetails == InitDetails /\ [][BuildDetails]_vars

\* buildAccordion alone
InitAccordion ==
    \E t \in Inputs(AccordionShapes, MaxAccordionLen)
              \cup Inputs(AccordionMixShapes, MaxAccordionMixLen) : StartAt(4, t)
SpecAccordion == InitAccordion /\ [][BuildAccordion]_vars

\* buildPagination alone
InitPagination ==
    \E t \in Inputs(PaginationShapes, MaxPaginationLen)
              \cup Inputs(LabelShapes, MaxLabelLen) : StartAt(5, t)
SpecPagination == InitPagination /\ [][BuildPagination]_vars

\* the table pass and the list pass, each alone
InitAnnotate ==
    \/ \E t \in Inputs(TableShapes, MaxTableLen) : StartAt(2, t)
    \/ \E t \in Inputs(ListShapes, MaxListLen) : StartAt(6, t)
NextAnnotate == TableStep \/ TablesDone \/ ListStep \/ ListsDone
SpecAnnotate == InitAnnotate /\ [][NextAnnotate]_vars

\* the alert pass alone
InitAlerts == \E t \in Inputs(AlertShapes, MaxAlertLen) : StartAt(1, t)
NextAlerts == AlertStep \/ AlertsDone
SpecAlerts == InitAlerts /\ [][NextAlerts]_vars

----------------------------------------------------------------------------
(* main: the command line process                                          *)

Flags == {"-o", "--output"}
\* what an argument can be: a flag, a path, the empty string
ArgTokens == Flags \cup {"in.docx", ""}

\* a loop that does not step over the value of -o
RECURSIVE ParseKeepingValue(_, _, _, _)
ParseKeepingValue(argv, i, output, positional) ==
    IF i > Len(argv)
    THEN [input |-> IF positional # <<>> /\ positional[1] # ""
                    THEN <<positional[1]>> ELSE <<>>,
          output |-> output]
    ELSE IF argv[i] \in Flags
    THEN ParseKeepingValue(argv, i + 1,
                           IF i + 1 <= Len(argv) THEN <<argv[i + 1]>> ELSE <<>>,
                           positional)
    ELSE ParseKeepingValue(argv, i + 1, output, Append(positional, argv[i]))

\* the for loop of parseArgs and the lines after it; i counts from 1 here
RECURSIVE ParseFrom(_, _, _, _)
ParseFrom(argv, i, output, positional) ==
    IF i > Len(argv)
    THEN [input |-> IF positional # <<>> /\ positional[1] # ""
                    THEN <<positional[1]>> ELSE <<>>,
          output |-> output]
    ELSE IF argv[i] \in Flags
    THEN ParseFrom(argv, i + 2,
                   IF i + 1 <= Len(argv) THEN <<argv[i + 1]>> ELSE <<>>,
                   positional)
    ELSE ParseFrom(argv, i + 1, output, Append(positional, argv[i]))

parseArgs(argv) == ParseFrom(argv, 1, <<>>, <<>>)

\* if (args.output): a non-empty string
Truthy(v) == v # <<>> /\ v[1] # ""

\* a handler that flushes what it has to the output destination before it exits
CatchFlushing(what) ==
    proc' = [proc EXCEPT !.at = "exited", !.status = 1,
                         !.out = Append(@, [dest |-> "stdout", html |-> tree,
                                            whole |-> FALSE]),
                         !.trace = @ \o <<what, "stderr error">>]

\* .catch: console.error(err); process.exit(1)
Catch(what) ==
    proc' = [proc EXCEPT !.at = "exited", !.status = 1,
                         !.trace = @ \o <<what, "stderr error">>]

\* a converter message makes one line on the error stream; a header comes first
RECURSIVE Lines(_)
Lines(n) == IF n = 0 THEN <<>> ELSE Append(Lines(n - 1), "stderr message")
Warnings(n) == IF n = 0 THEN <<>> ELSE <<"stderr header">> \o Lines(n)

\* what the converter can return for main: small documents of markers
DocShapes == {AlertInfo, M("table", "responsive"), Table, M("list", "inline")}

ParseArgs ==
    /\ proc.at = "start"
    /\ proc' = [proc EXCEPT !.at = "parsed",
                            !.input = parseArgs(proc.argv).input,
                            !.output = parseArgs(proc.argv).output]
    /\ UNCHANGED <<pc, tree, sel, snap, prev, last, loop>>

\* if (!args.input) { console.error(usage); process.exit(2) }
Usage ==
    /\ proc.at = "parsed" /\ proc.input = <<>>
    /\ proc' = [proc EXCEPT !.at = "exited", !.status = 2,
                            !.trace = Append(@, "stderr usage")]
    /\ UNCHANGED <<pc, tree, sel, snap, prev, last, loop>>

\* fs.readFileSync(inputPath) returns
ReadFile ==
    /\ proc.at = "parsed" /\ proc.input # <<>>
    /\ proc' = [proc EXCEPT !.at = "read", !.trace = Append(@, "read")]
    /\ UNCHANGED <<pc, tree, sel, snap, prev, last, loop>>

\* fs.readFileSync(inputPath) throws
ReadFails ==
    /\ proc.at = "parsed" /\ proc.input # <<>>
    /\ Catch("read throws")
    /\ UNCHANGED <<pc, tree, sel, snap, prev, last, loop>>

\* mammoth.convertToHtml resolves and transformPlaceholdersToGCWeb is entered
Convert ==
    /\ proc.at = "read"
    /\ \E t \in Inputs(DocShapes, MaxDocLen) : \E m \in 0..MaxMessages :
         /\ proc' = [proc EXCEPT !.at = "transform", !.messages = m,
                                 !.trace = @ \o <<"convert", "transform">>]
         /\ pc' = "alerts"
         /\ tree' = t
         /\ sel' = SelectAlerts(t)
         /\ snap' = [n \in {"alerts"} |-> t]
         /\ prev' = t
         /\ last' = 0
         /\ UNCHANGED loop

\* mammoth.convertToHtml rejects
ConvertFails ==
    /\ proc.at = "read"
    /\ Catch("convert throws")
    /\ UNCHANGED <<pc, tree, sel, snap, prev, last, loop>>

\* an exception leaves transformPlaceholdersToGCWeb
TransformThrows ==
    /\ proc.at = "transform" /\ pc # "done"
    /\ Catch("transform throws")
    /\ pc' = "idle"
    /\ UNCHANGED <<tree, sel, snap, prev, last, loop>>

\* return $.root().html(); return { html, messages }. The serialized forest is
\* kept as the forest itself.
Return ==
    /\ proc.at = "transform" /\ pc = "done"
    /\ proc' = [proc EXCEPT !.at = "converted", !.html = tree,
                            !.trace = Append(@, "transformed")]
    /\ pc' = "idle"
    /\ UNCHANGED <<tree, sel, snap, prev, last, loop>>

\* if (messages && messages.length) { console.error ... }
Warn ==
    /\ proc.at = "converted"
    /\ proc' = [proc EXCEPT !.at = "warned", !.trace = @ \o Warnings(proc.messages)]
    /\ UNCHANGED <<pc, tree, sel, snap, prev, last, loop>>

\* fs.writeFileSync(output, html) or process.stdout.write(html) returns
Write ==
    /\ proc.at = "warned"
    /\ LET dest == IF Truthy(proc.output) THEN "file" ELSE "stdout"
       IN proc' = [proc EXCEPT !.at = "written",
                               !.out = Append(@, [dest |-> dest, html |-> proc.html,
                                                  whole |-> TRUE]),
                               !.trace = Append(@, "write")]
    /\ UNCHANGED <<pc, tree, sel, snap, prev, last, loop>>

\* the write throws, after it wrote nothing or a part of the output
WriteFails ==
    /\ proc.at = "warned"
    /\ LET dest == IF Truthy(proc.output) THEN "file" ELSE "stdout"
       IN \E part \in BOOLEAN :
            proc' = [proc EXCEPT !.at = "exited", !.status = 1,
                                 !.out = IF part
                                         THEN Append(@, [dest |-> dest, html |-> proc.html,
                                                         whole |-> FALSE])
                                         ELSE @,
                                 !.trace = @ \o <<"write throws", "stderr error">>]
    /\ UNCHANGED <<pc, tree, sel, snap, prev, last, loop>>

\* main returns and the process ends
Exit ==
    /\ proc.at = "written"
    /\ proc' = [proc EXCEPT !.at = "exited", !.status = 0]
    /\ UNCHANGED <<pc, tree, sel, snap, prev, last, loop>>

InitMain ==
    /\ \E argv \in SeqsUpTo(ArgTokens, MaxArgs) :
         proc = Process("start", argv, <<>>, <<>>, 0, <<>>, <<>>, <<>>, -1)
    /\ loop = NoLoop
    /\ pc = "idle"
    /\ tree = <<>>
    /\ sel = <<>>
    /\ snap = [n \in {} |-> <<>>]
    /\ prev = <<>>
    /\ last = 0

NextMain ==
    \/ ParseArgs \/ Usage \/ ReadFile \/ ReadFails \/ Convert \/ ConvertFails
    \/ Next \/ TransformThrows \/ Return \/ Warn \/ Write \/ WriteFails \/ Exit

\* the whole program
SpecMain == InitMain /\ [][NextMain]_vars

\* each of the three builders on the inputs of its own family, the later
\* builders then running over its output
InitBuilders == InitDetails \/ InitAccordion \/ InitPagination
NextBuilders == BuildDetails \/ BuildAccordion \/ BuildPagination
SpecBuilders == InitBuilders /\ [][NextBuilders]_vars

----------------------------------------------------------------------------
(* The three builders, one loop iteration at a time                        *)

\* an index that stays where it is
SameIndex(i) == i

\* i++, j++
NextIndex(i) == i + 1

\* the marker that makes the outer loop of the builder at stage st open a block
IsOpener(st, n) ==
    \/ st = "details" /\ IsMarker(n, "details", "summary")
    \/ st = "accordion" /\ IsMarker(n, "accordion", "start")
    \/ st = "pagination" /\ IsMarker(n, "pagination", "start")

\* const nodes = $main.contents().toArray(); let i = 0
LoopEnter ==
    /\ pc \in {"details", "accordion", "pagination"} /\ loop.at = "idle"
    /\ loop' = Loop("outer", tree, 1, 0, <<>>, 0)
    /\ UNCHANGED <<pc, tree, sel, snap, prev, last, proc>>

\* one test of the outer while with i < nodes.length: the block is opened, or i++
LoopOuter ==
    /\ loop.at = "outer" /\ loop.i <= Len(loop.nodes)
    /\ loop' = IF IsOpener(pc, loop.nodes[loop.i])
               THEN [loop EXCEPT !.at = "inner", !.j = NextIndex(loop.i), !.cur = 0,
                                 !.acc = IF pc = "details"
                                         THEN <<Summary(loop.nodes[loop.i])>> ELSE <<>>]
               ELSE [loop EXCEPT !.i = NextIndex(@)]
    /\ UNCHANGED <<pc, tree, sel, snap, prev, last, proc>>

\* buildDetails: one test of the inner while
DetailsInner ==
    /\ pc = "details" /\ loop.at = "inner"
    /\ loop' = IF loop.j <= Len(loop.nodes)
                  /\ IsMarker(loop.nodes[loop.j], "details", "content")
               THEN [loop EXCEPT !.acc = Append(@, Para(loop.nodes[loop.j])),
                                 !.j = NextIndex(@)]
               ELSE [loop EXCEPT !.at = "close"]
    /\ UNCHANGED <<pc, tree, sel, snap, prev, last, proc>>

\* buildDetails: replaceWith, the removals, the new snapshot, i++
DetailsClose ==
    /\ pc = "details" /\ loop.at = "close"
    /\ tree' = RemoveAll(ReplaceNode(tree, loop.nodes[loop.i].id,
                                     Node(Fresh(loop.nodes[loop.i].id), "details", <<>>,
                                          <<>>, {}, <<>>, loop.acc)),
                         SubSeq(loop.nodes, loop.i + 1, loop.j - 1))
    /\ loop' = Loop("outer", tree', NextIndex(loop.i), loop.j, <<>>, 0)
    /\ UNCHANGED <<pc, sel, snap, prev, last, proc>>

\* buildAccordion: one test of the inner while and the body that follows it
AccordionInner ==
    /\ pc = "accordion" /\ loop.at = "inner"
    /\ LET m == loop.nodes[loop.j]
           start == loop.nodes[loop.i]
           acc1 == IF loop.cur = 0 THEN Append(loop.acc, DefaultItem(start)) ELSE loop.acc
           cur1 == IF loop.cur = 0 THEN Len(loop.acc) + 1 ELSE loop.cur
       IN IF loop.j > Len(loop.nodes) \/ IsMarker(m, "accordion", "end")
          THEN loop' = [loop EXCEPT !.at = "close"] /\ tree' = tree
          ELSE IF IsMarker(m, "accordion", "heading")
          THEN /\ loop' = [loop EXCEPT !.acc = Append(@, HeadingItem(m)),
                                       !.cur = Len(loop.acc) + 1, !.j = NextIndex(@)]
               /\ tree' = RemoveNode(tree, m.id)
          ELSE IF IsMarker(m, "accordion", "panel")
          THEN /\ loop' = [loop EXCEPT !.acc = AppendToItem(acc1, cur1, Para(m)),
                                       !.cur = cur1, !.j = NextIndex(@)]
               /\ tree' = RemoveNode(tree, m.id)
          ELSE IF loop.cur # 0
          THEN /\ loop' = [loop EXCEPT !.acc = AppendToItem(@, loop.cur, Para(m)),
                                       !.j = NextIndex(@)]
               /\ tree' = RemoveNode(tree, m.id)
          ELSE loop' = [loop EXCEPT !.at = "close"] /\ tree' = tree
    /\ UNCHANGED <<pc, sel, snap, prev, last, proc>>

\* replaceWith, the removal of the end marker, the new snapshot, i++
CloseWith(new, fam) ==
    LET replaced == ReplaceNode(tree, loop.nodes[loop.i].id, new)
    IN /\ tree' = IF loop.j <= Len(loop.nodes)
                     /\ IsMarker(loop.nodes[loop.j], fam, "end")
                  THEN RemoveNode(replaced, loop.nodes[loop.j].id)
                  ELSE replaced
       /\ loop' = Loop("outer", tree', NextIndex(loop.i), loop.j, <<>>, 0)

AccordionClose ==
    /\ pc = "accordion" /\ loop.at = "close"
    /\ CloseWith(Node(Fresh(loop.nodes[loop.i].id), "section", <<>>,
                      << <<"wb", "accordion">> >>, {}, <<>>, loop.acc), "accordion")
    /\ UNCHANGED <<pc, sel, snap, prev, last, proc>>

\* buildPagination: one test of the inner while and the body that follows it
PaginationInner ==
    /\ pc = "pagination" /\ loop.at = "inner"
    /\ LET m == loop.nodes[loop.j]
       IN IF loop.j > Len(loop.nodes) \/ IsMarker(m, "pagination", "end")
          THEN loop' = [loop EXCEPT !.at = "close"] /\ tree' = tree
          ELSE IF IsMarker(m, "pagination", "active")
          THEN /\ loop' = [loop EXCEPT !.acc = Append(@, ActiveEntry(m)),
                                       !.j = NextIndex(@)]
               /\ tree' = RemoveNode(tree, m.id)
          ELSE IF IsMarker(m, "pagination", "disabled")
          THEN /\ loop' = [loop EXCEPT !.acc = Append(@, DisabledEntry(m)),
                                       !.j = NextIndex(@)]
               /\ tree' = RemoveNode(tree, m.id)
          ELSE IF IsMarker(m, "pagination", "item")
          THEN /\ loop' = [loop EXCEPT !.acc = Append(@, ItemEntry(m)),
                                       !.j = NextIndex(@)]
               /\ tree' = RemoveNode(tree, m.id)
          ELSE loop' = [loop EXCEPT !.at = "close"] /\ tree' = tree
    /\ UNCHANGED <<pc, sel, snap, prev, last, proc>>

PaginationClose ==
    /\ pc = "pagination" /\ loop.at = "close"
    /\ CloseWith(Node(Fresh(loop.nodes[loop.i].id), "nav", <<>>, <<>>,
                      {<<"aria-label", "Pagination">>}, <<>>,
                      <<Node(Fresh2(loop.nodes[loop.i].id), "ul", <<>>,
                             << <<"pagination">> >>, {}, <<>>, loop.acc)>>),
                 "pagination")
    /\ UNCHANGED <<pc, sel, snap, prev, last, proc>>

\* the outer while ends: the sweep, and the builder returns
LoopFinish ==
    /\ loop.at = "outer" /\ loop.i > Len(loop.nodes)
    /\ tree' = IF pc = "details" THEN SweepMarker(tree, "details", "content")
               ELSE SweepFamily(tree, pc)
    /\ pc' = Stages[1 + CHOOSE k \in 1..Len(Stages) : Stages[k] = pc]
    /\ sel' = IF pc = "pagination" THEN SelectLists(tree') ELSE sel
    /\ snap' = snap @@ (pc' :> tree')
    /\ prev' = snap[pc]
    /\ last' = 0
    /\ loop' = NoLoop
    /\ UNCHANGED proc

InitLoops ==
    \/ \E t \in Inputs(DetailsShapes, MaxLoopLen) : StartAt(3, t)
    \/ \E t \in Inputs(AccordionShapes, MaxLoopLen) : StartAt(4, t)
    \/ \E t \in Inputs(PaginationShapes, MaxLoopLen) : StartAt(5, t)
NextLoops ==
    \/ LoopEnter \/ LoopOuter \/ DetailsInner \/ DetailsClose
    \/ AccordionInner \/ AccordionClose \/ PaginationInner \/ PaginationClose
    \/ LoopFinish

\* The code is sequential and synchronous: a loop that can take a step takes it.
SpecLoops == InitLoops /\ [][NextLoops]_vars /\ WF_vars(NextLoops)

----------------------------------------------------------------------------
(* Vocabulary of the claims                                                *)

MarkerFamilies == {"alert", "table", "list", "details", "accordion", "pagination"}

\* n carries a marker attribute of one of the six families
IsFamilyMarker(n) == Len(n.wet) >= 2 /\ n.wet[1] \in MarkerFamilies

\* some node inside n (n excluded) is the marker a-b
Holds(n, a, b) == \E h \in 1..Len(Flatten(n.kids)) : IsMarker(Flatten(n.kids)[h], a, b)
HoldsFamily(n, fam) ==
    \E h \in 1..Len(Flatten(n.kids)) : IsDivFamily(Flatten(n.kids)[h], fam)

\* the number of positions below s whose node is not the marker a-b
SurvivorsBefore(seq, s, a, b) == Cardinality({h \in 1..(s - 1) : ~IsMarker(seq[h], a, b)})

----------------------------------------------------------------------------
(* C1. Marker closure: once all six passes have run, no node of the output *)
(* tree, at any depth, carries a marker of the alert, table, list,         *)
(* details, accordion or pagination family.                                *)
(* The code breaks it: buildDetails looks for details-summary among the    *)
(* children of <main> only, and its sweep removes details-content only.    *)
C1_MarkerClosure ==
    pc = "done" => \A h \in 1..Len(Flatten(tree)) : ~IsFamilyMarker(Flatten(tree)[h])

----------------------------------------------------------------------------
(* C2. Details pairing.                                                    *)

\* where the run of details-content markers that follows position s stops
RunStop(seq, s) ==
    CHOOSE e \in (s + 1)..(Len(seq) + 1) :
        /\ e = Len(seq) + 1 \/ ~IsMarker(seq[e], "details", "content")
        /\ \A h \in (s + 1)..(e - 1) : IsMarker(seq[h], "details", "content")

\* The summary at prev[s] became one disclosure element, at the marker's place,
\* whose paragraphs are the run that follows the summary, in order.
Disclosed(s) ==
    LET e == RunStop(prev, s)
        p == IndexOf(tree, Fresh(prev[s].id))
    IN /\ p = 1 + SurvivorsBefore(prev, s, "details", "content")
       /\ tree[p].tag = "details"
       /\ Len(tree[p].kids) = e - s
       /\ tree[p].kids[1].tag = "summary"
       /\ tree[p].kids[1].txt = prev[s].txt
       /\ \A h \in 1..(e - s - 1) :
            tree[p].kids[h + 1].tag = "p" /\ tree[p].kids[h + 1].txt = prev[s + h].txt

OneDisclosurePerSummary ==
    Cardinality({h \in 1..Len(tree) : tree[h].tag = "details"})
        = Cardinality({s \in 1..Len(prev) : IsMarker(prev[s], "details", "summary")})

\* C2 as stated: for every summary among the children of <main>,
\* buildDetails puts one disclosure element in its place, holding the run of
\* details-content that follows, and the first sibling after the run is left
\* unchanged, right after the disclosure element.
C2_DetailsPairingOriginal ==
    pc = "accordion" =>
        /\ OneDisclosurePerSummary
        /\ \A s \in 1..Len(prev) :
             IsMarker(prev[s], "details", "summary") =>
                /\ Disclosed(s)
                /\ RunStop(prev, s) <= Len(prev) =>
                      /\ IndexOf(tree, Fresh(prev[s].id)) + 1 <= Len(tree)
                      /\ tree[IndexOf(tree, Fresh(prev[s].id)) + 1] = prev[RunStop(prev, s)]

(* C2 as amended: as above, and the first sibling after the run is still   *)
(* the next sibling of the disclosure element: unchanged when it is not a  *)
(* details-summary marker and holds no details-content marker, replaced by *)
(* its own disclosure element when it is a details-summary marker, and     *)
(* otherwise the same node without the details-content markers inside it.  *)
C2_DetailsPairing ==
    pc = "accordion" =>
        /\ OneDisclosurePerSummary
        /\ \A s \in 1..Len(prev) :
             IsMarker(prev[s], "details", "summary") =>
                /\ Disclosed(s)
                /\ RunStop(prev, s) <= Len(prev) =>
                      LET x == prev[RunStop(prev, s)]
                          q == IndexOf(tree, Fresh(prev[s].id)) + 1
                      IN /\ q <= Len(tree)
                         /\ IF IsMarker(x, "details", "summary")
                            THEN tree[q].id = Fresh(x.id) /\ tree[q].tag = "details"
                            ELSE /\ tree[q].id = x.id
                                 /\ ~Holds(tree[q], "details", "content")
                                 /\ ~Holds(x, "details", "content") => tree[q] = x

\* A summary, two content markers and a paragraph became a disclosure element of
\* two paragraphs followed by the paragraph.
C2_Witness ==
    /\ pc = "accordion"
    /\ \E s \in 1..(Len(prev) - 3) :
         /\ IsMarker(prev[s], "details", "summary")
         /\ IsMarker(prev[s + 1], "details", "content")
         /\ IsMarker(prev[s + 2], "details", "content")
         /\ prev[s + 3].tag = "p"
         /\ \E q \in 1..(Len(tree) - 1) :
              /\ tree[q].tag = "details"
              /\ Len(tree[q].kids) = 3
              /\ tree[q].kids[3].txt = prev[s + 2].txt
              /\ tree[q + 1] = prev[s + 3]

----------------------------------------------------------------------------
(* Accordion scopes, as the claims C3 to C6 speak of them                  *)

IsAcc(n, b) == IsMarker(n, "accordion", b)
IsAccItem(n) == IsAcc(n, "heading") \/ IsAcc(n, "panel")

\* the first accordion-end after position s, Len(seq) + 1 when there is none
ScopeEnd(seq, s) ==
    CHOOSE e \in (s + 1)..(Len(seq) + 1) :
        /\ e = Len(seq) + 1 \/ IsAcc(seq[e], "end")
        /\ \A h \in (s + 1)..(e - 1) : ~IsAcc(seq[h], "end")

\* the scope that starts at s0 gets a current item (its first node is a heading or
\* a panel) and is still open at position s
CoversWithItem(seq, s0, s) ==
    /\ IsAcc(seq[s0], "start")
    /\ s0 + 1 <= Len(seq) /\ IsAccItem(seq[s0 + 1])
    /\ s0 < s /\ s < ScopeEnd(seq, s0)

\* the accordion-start at s opens a scope: no earlier open scope consumes it
RECURSIVE Opens(_, _)
Opens(seq, s) ==
    /\ IsAcc(seq[s], "start")
    /\ ~\E s0 \in 1..(s - 1) : Opens(seq, s0) /\ CoversWithItem(seq, s0, s)

\* position s lies in an open scope that has a current item
Swallowed(seq, s) == \E s0 \in 1..(s - 1) : Opens(seq, s0) /\ CoversWithItem(seq, s0, s)

\* the accordion container built from the start marker at prev[s]: its position
\* in tree, 0 when there is none
ContainerOf(s) == IndexOf(tree, Fresh(prev[s].id))

\* the first heading after h, or the end of the scope e
NextHeading(seq, h, e) ==
    CHOOSE n \in (h + 1)..e :
        /\ n = e \/ IsAcc(seq[n], "heading")
        /\ \A k \in (h + 1)..(n - 1) : ~IsAcc(seq[k], "heading")

\* the scope prev[s] .. prev[e] became one container with one item per heading, in
\* order, each item holding the panels that follow its heading and no other
ItemPerHeading(s, e) ==
    LET c == ContainerOf(s) IN
    /\ c # 0
    /\ tree[c].tag = "section" /\ tree[c].cls = << <<"wb", "accordion">> >>
    /\ Len(tree[c].kids) = Cardinality({h \in (s + 1)..(e - 1) : IsAcc(prev[h], "heading")})
    /\ \A h \in (s + 1)..(e - 1) :
         IsAcc(prev[h], "heading") =>
            LET i == Cardinality({g \in (s + 1)..h : IsAcc(prev[g], "heading")})
                n == NextHeading(prev, h, e)
                item == tree[c].kids[i]
            IN /\ item.tag = "details"
               /\ Len(item.kids) = n - h
               /\ item.kids[1].tag = "summary" /\ item.kids[1].txt = prev[h].txt
               /\ \A k \in 1..(n - h - 1) :
                    item.kids[k + 1].tag = "p" /\ item.kids[k + 1].txt = prev[h + k].txt

\* prev[s] .. prev[e] is a scope whose interior holds headings and panels only and
\* begins with a heading
HeadedScope(s, e) ==
    /\ IsAcc(prev[s], "start")
    /\ e = ScopeEnd(prev, s) /\ e <= Len(prev)
    /\ s + 1 < e /\ IsAcc(prev[s + 1], "heading")
    /\ \A h \in (s + 1)..(e - 1) : IsAccItem(prev[h])

(* C3 as stated. Accordion implicit close: every scope accordion-start ..  *)
(* accordion-end whose interior holds only headings and panels and begins  *)
(* with a heading becomes one container with one item per heading, in      *)
(* heading order, each panel in the item of the nearest preceding heading. *)
C3_ImplicitCloseOriginal ==
    pc = "pagination" =>
        \A s \in 1..Len(prev) : \A e \in (s + 1)..Len(prev) :
            HeadedScope(s, e) => ItemPerHeading(s, e)

(* C3 as amended: the same for every such scope whose accordion-start is   *)
(* not itself consumed, as panel text, by an earlier scope that is still   *)
(* open and has a current item.                                            *)
C3_ImplicitClose ==
    pc = "pagination" =>
        \A s \in 1..Len(prev) : \A e \in (s + 1)..Len(prev) :
            HeadedScope(s, e) /\ Opens(prev, s) => ItemPerHeading(s, e)

\* start, heading, panel, heading, panel, end became two items of one panel each
C3_Witness ==
    /\ pc = "pagination"
    /\ \E s \in 1..(Len(prev) - 5) :
         /\ HeadedScope(s, s + 5) /\ Opens(prev, s)
         /\ IsAcc(prev[s + 2], "panel") /\ IsAcc(prev[s + 3], "heading")
         /\ IsAcc(prev[s + 4], "panel")
         /\ ContainerOf(s) # 0
         /\ Len(tree[ContainerOf(s)].kids) = 2
         /\ tree[ContainerOf(s)].kids[1].kids[2].txt = prev[s + 2].txt
         /\ tree[ContainerOf(s)].kids[2].kids[2].txt = prev[s + 4].txt

----------------------------------------------------------------------------
\* the first heading or accordion-end after s, Len(seq) + 1 when there is none
DefaultStop(seq, s) ==
    CHOOSE n \in (s + 1)..(Len(seq) + 1) :
        /\ n = Len(seq) + 1 \/ IsAcc(seq[n], "heading") \/ IsAcc(seq[n], "end")
        /\ \A k \in (s + 1)..(n - 1) : ~IsAcc(seq[k], "heading") /\ ~IsAcc(seq[k], "end")

IsDefaultItem(item) == item.kids # <<>> /\ item.kids[1].txt = <<"Details">>

(* C4. Accordion default item: when a panel is met in an open scope before *)
(* any heading, one default item labelled "Details" is synthesized, that   *)
(* panel and every panel after it up to the next heading are appended to   *)
(* it in order, and the scope never gets a second default item.            *)
C4_DefaultItem ==
    pc = "pagination" =>
        \A s \in 1..(Len(prev) - 1) :
            Opens(prev, s) /\ IsAcc(prev[s + 1], "panel") =>
                LET c == ContainerOf(s)
                    n == DefaultStop(prev, s)
                IN /\ c # 0
                   /\ tree[c].kids # <<>>
                   /\ tree[c].kids[1].tag = "details"
                   /\ tree[c].kids[1].kids[1].tag = "summary"
                   /\ IsDefaultItem(tree[c].kids[1])
                   /\ Cardinality({i \in 1..Len(tree[c].kids) :
                                      IsDefaultItem(tree[c].kids[i])}) = 1
                   /\ \A k \in (s + 1)..(n - 1) :
                        IsAcc(prev[k], "panel") =>
                            /\ k - s + 1 <= Len(tree[c].kids[1].kids)
                            /\ tree[c].kids[1].kids[k - s + 1].tag = "p"
                            /\ tree[c].kids[1].kids[k - s + 1].txt = prev[k].txt
                            /\ \A i \in 2..Len(tree[c].kids) :
                                 \A g \in 1..Len(tree[c].kids[i].kids) :
                                    tree[c].kids[i].kids[g].id # Fresh(prev[k].id)

\* start, panel, panel, heading: the default item holds both panels, the heading
\* made a second item
C4_Witness ==
    /\ pc = "pagination"
    /\ \E s \in 1..(Len(prev) - 3) :
         /\ Opens(prev, s)
         /\ IsAcc(prev[s + 1], "panel") /\ IsAcc(prev[s + 2], "panel")
         /\ IsAcc(prev[s + 3], "heading")
         /\ ContainerOf(s) # 0
         /\ Len(tree[ContainerOf(s)].kids) = 2
         /\ IsDefaultItem(tree[ContainerOf(s)].kids[1])
         /\ Len(tree[ContainerOf(s)].kids[1].kids) = 3

----------------------------------------------------------------------------
\* the accordion-start at s is followed first by a node that is neither a
\* heading, a panel nor an end
StartsOnStray(seq, s) ==
    /\ IsAcc(seq[s], "start")
    /\ s + 1 <= Len(seq)
    /\ ~IsAccItem(seq[s + 1]) /\ ~IsAcc(seq[s + 1], "end")

NotAccordion(n) == ~IsDivFamily(n, "accordion")

\* an accordion container built by the pass
IsContainer(n) == n.tag = "section" /\ n.cls = << <<"wb", "accordion">> >>
NotContainer(n) == ~IsContainer(n)

\* The start marker at prev[s] became a container with no items; the node after
\* it, unless an accordion-start, is directly after the container; the later
\* nodes that are not accordion-family markers (with laterScopes: and lie in no
\* later scope that has a current item) are the children of <main> after the
\* container, in their order, each unchanged but for the accordion-family
\* markers that were nested in it.
FailClosedAt(s, laterScopes) ==
    LET c == ContainerOf(s)
        kept == SelectSeq(SubSeq(tree, c + 1, Len(tree)), NotContainer)
        keep == SelectSeq(SubSeq(prev, s + 1, Len(prev)),
                          LAMBDA n : /\ NotAccordion(n)
                                     /\ laterScopes => ~Swallowed(prev, IndexOf(prev, n.id)))
    IN /\ c # 0
       /\ tree[c].tag = "section" /\ tree[c].kids = <<>>
       /\ NotAccordion(prev[s + 1]) =>
             c + 1 <= Len(tree) /\ tree[c + 1].id = prev[s + 1].id
       /\ Len(kept) = Len(keep)
       /\ \A k \in 1..Len(keep) :
            /\ kept[k].id = keep[k].id
            /\ ~HoldsFamily(kept[k], "accordion")
            /\ ~HoldsFamily(keep[k], "accordion") => kept[k] = keep[k]

----------------------------------------------------------------------------
\* some accordion-start has no accordion-end after it, or a node that is not an
\* accordion-family marker lies between it and its end
Malformed(seq) ==
    \E s \in 1..Len(seq) :
        /\ IsAcc(seq[s], "start")
        /\ \/ ScopeEnd(seq, s) = Len(seq) + 1
           \/ \E h \in (s + 1)..(ScopeEnd(seq, s) - 1) : NotAccordion(seq[h])

\* the node is still a child of <main>
StaysTopLevel(n) == IndexOf(tree, n.id) # 0

\* the content of the node is a paragraph of some accordion item
MovedIntoContainer(n) ==
    \E c \in 1..Len(tree) :
        /\ tree[c].tag = "section" /\ tree[c].cls = << <<"wb", "accordion">> >>
        /\ \E h \in 1..Len(Flatten(tree[c].kids)) :
             Flatten(tree[c].kids)[h].id = Fresh(n.id)

(* C6 as stated. Malformed accordions never swallow unrelated content:     *)
(* when some scope is malformed, buildAccordion removes no node that is    *)
(* not an accordion-family marker from the children of <main> and moves no *)
(* such node's content into an accordion container.                        *)
C6_NeverSwallowOriginal ==
    pc = "pagination" /\ Malformed(prev) =>
        \A k \in 1..Len(prev) :
            NotAccordion(prev[k]) =>
                StaysTopLevel(prev[k]) /\ ~MovedIntoContainer(prev[k])

(* C6 as amended: in a sequence with a malformed scope, buildAccordion     *)
(* removes a node that is not an accordion-family marker, and moves its    *)
(* content into the container, exactly when the node lies in a scope that  *)
(* the builder opened and that already has a current item (its first node  *)
(* is a heading or a panel) and has not met its accordion-end; every other *)
(* such node stays a child of <main> and none of its content is moved.     *)
C6_NeverSwallow ==
    pc = "pagination" /\ Malformed(prev) =>
        \A k \in 1..Len(prev) :
            NotAccordion(prev[k]) =>
                IF Swallowed(prev, k)
                THEN ~StaysTopLevel(prev[k]) /\ MovedIntoContainer(prev[k])
                ELSE StaysTopLevel(prev[k]) /\ ~MovedIntoContainer(prev[k])

\* start, paragraph, heading, end, start, heading, paragraph: the first paragraph
\* stays, the second one is now inside the second container
C6_Witness ==
    /\ pc = "pagination" /\ Malformed(prev)
    /\ \E k \in 1..Len(prev) : \E g \in 1..Len(prev) :
         /\ prev[k].tag = "p" /\ ~Swallowed(prev, k)
         /\ k > 1 /\ IsAcc(prev[k - 1], "start")
         /\ StaysTopLevel(prev[k])
         /\ prev[g].tag = "p" /\ Swallowed(prev, g)
         /\ MovedIntoContainer(prev[g])

----------------------------------------------------------------------------
(* Pagination vocabulary                                                   *)

IsPag(n, b) == IsMarker(n, "pagination", b)
IsEntryMarker(n) == IsPag(n, "item") \/ IsPag(n, "active") \/ IsPag(n, "disabled")

\* a navigation list built by the pass, and its entries
IsNavList(n) ==
    /\ n.tag = "nav" /\ Len(n.kids) = 1
    /\ n.kids[1].tag = "ul" /\ n.kids[1].cls = << <<"pagination">> >>
Entries(nav) == nav.kids[1].kids

\* Where the start marker prev[s] stood among the children of <main>: of the
\* nodes before it, the pass keeps those that are no pagination-family marker
\* and puts one navigation list in the place of each pagination-start.
PlaceOf(s) ==
    1 + Cardinality({h \in 1..(s - 1) :
                        ~IsDivFamily(prev[h], "pagination") \/ IsPag(prev[h], "start")})

\* the text between the first and the last token that is not white space
Stripped(txt) ==
    LET ink == {k \in 1..Len(txt) : txt[k] # " "}
    IN IF ink = {} THEN <<>>
       ELSE SubSeq(txt, CHOOSE k \in ink : \A h \in ink : k <= h,
                        CHOOSE k \in ink : \A h \in ink : k >= h)
\* the label of a sub-marker: its trimmed text, its inner markup when that is empty
LabelOf(m) == IF Stripped(TextOf(m)) # <<>> THEN Stripped(TextOf(m)) ELSE RenderHtml(m)

HasAttr(n, a, v) == <<a, v>> \in n.attrs
HasClass(n, c) == \E k \in 1..Len(n.cls) : n.cls[k] = c
IsCurrent(li) ==
    /\ HasClass(li, <<"active">>) /\ Len(li.kids) = 1
    /\ li.kids[1].tag = "a" /\ HasAttr(li.kids[1], "aria-current", "page")
IsNonInteractive(li) ==
    /\ HasClass(li, <<"disabled">>) /\ Len(li.kids) = 1
    /\ li.kids[1].tag = "span" /\ ~HasAttr(li.kids[1], "href", "#")
IsPlainNavigable(li) ==
    /\ li.cls = <<>> /\ Len(li.kids) = 1
    /\ li.kids[1].tag = "a" /\ li.kids[1].attrs = {<<"href", "#">>}

\* the entry li is the one the sub-marker m asks for
EntryOf(li, m) ==
    /\ li.tag = "li"
    /\ IsCurrent(li) <=> IsPag(m, "active")
    /\ IsNonInteractive(li) <=> IsPag(m, "disabled")
    /\ IsPag(m, "item") => IsPlainNavigable(li)
    /\ Len(li.kids) = 1 /\ li.kids[1].txt = LabelOf(m)

\* prev[s..e] is pagination-start, sub-markers only, pagination-end
ClosedScope(s, e) ==
    /\ IsPag(prev[s], "start") /\ IsPag(prev[e], "end")
    /\ \A h \in (s + 1)..(e - 1) : IsEntryMarker(prev[h])

(* C7. Pagination structure: for every scope pagination-start, m1..mn,     *)
(* pagination-end of sub-markers only, the start marker is replaced by one *)
(* navigation list of exactly n entries in the same order; entry i is      *)
(* marked current iff mi is pagination-active, is non-interactive iff mi   *)
(* is pagination-disabled, is a plain navigable entry otherwise, and       *)
(* carries the label of mi.                                                *)
C7_PaginationStructure ==
    pc = "lists" =>
        \A s \in 1..Len(prev) : \A e \in (s + 1)..Len(prev) :
            ClosedScope(s, e) =>
                LET p == PlaceOf(s)
                IN /\ p <= Len(tree)
                   /\ IsNavList(tree[p])
                   /\ Len(Entries(tree[p])) = e - s - 1
                   /\ \A i \in 1..(e - s - 1) : EntryOf(Entries(tree[p])[i], prev[s + i])

\* start, item, active, disabled, end became a list of three entries, the second
\* current, the third non-interactive, each with the text of its marker
C7_Witness ==
    /\ pc = "lists"
    /\ \E s \in 1..(Len(prev) - 4) :
         /\ ClosedScope(s, s + 4)
         /\ IsPag(prev[s + 1], "item") /\ IsPag(prev[s + 2], "active")
         /\ IsPag(prev[s + 3], "disabled")
         /\ PlaceOf(s) <= Len(tree) /\ IsNavList(tree[PlaceOf(s)])
         /\ Len(Entries(tree[PlaceOf(s)])) = 3
         /\ IsPlainNavigable(Entries(tree[PlaceOf(s)])[1])
         /\ IsCurrent(Entries(tree[PlaceOf(s)])[2])
         /\ IsNonInteractive(Entries(tree[PlaceOf(s)])[3])
         /\ \A i \in 1..3 : Entries(tree[PlaceOf(s)])[i].kids[1].txt = prev[s + i].txt

----------------------------------------------------------------------------
\* The scope of the pagination-start prev[s] ends early at prev[e]: the nodes
\* between them are sub-markers, and prev[e] is neither a sub-marker nor the end
EndsEarlyAt(s, e) ==
    /\ IsPag(prev[s], "start")
    /\ \A h \in (s + 1)..(e - 1) : IsEntryMarker(prev[h])
    /\ ~IsEntryMarker(prev[e]) /\ ~IsPag(prev[e], "end")

\* the navigation list in the place of prev[s] holds the entries of the
\* sub-markers prev[s+1..e-1], in order, and no other entry
OnlyEntriesBefore(s, e) ==
    LET p == PlaceOf(s)
    IN /\ p <= Len(tree)
       /\ IsNavList(tree[p])
       /\ Len(Entries(tree[p])) = e - s - 1
       /\ \A i \in 1..(e - s - 1) : EntryOf(Entries(tree[p])[i], prev[s + i])

\* n without the pagination-family markers nested inside it
RECURSIVE WithoutNested(_)
WithoutNested(n) ==
    LET kept == SelectSeq(n.kids, LAMBDA k : ~IsDivFamily(k, "pagination"))
    IN [n EXCEPT !.kids = [i \in 1..Len(kept) |-> WithoutNested(kept[i])]]

(* C8 as stated. Pagination early termination: the first node of an open   *)
(* scope that is no sub-marker and not pagination-end ends the scope; the  *)
(* navigation list that replaces the start marker holds only the entries   *)
(* met before that node, and the node sits unchanged directly after the    *)
(* navigation list.                                                        *)
C8_EarlyTerminationOriginal ==
    pc = "lists" =>
        \A s \in 1..Len(prev) : \A e \in (s + 1)..Len(prev) :
            EndsEarlyAt(s, e) =>
                /\ OnlyEntriesBefore(s, e)
                /\ PlaceOf(s) + 1 <= Len(tree)
                /\ tree[PlaceOf(s) + 1] = prev[e]

(* C8 as amended: the navigation list holds only the entries met before    *)
(* that node, sub-markers after it add no entry to it, and the node is not *)
(* consumed by the scope: directly after the navigation list sits the node *)
(* itself, without the pagination markers that were nested in it, or, when *)
(* the node is itself a pagination-start, the navigation list built for it.*)
C8_EarlyTermination ==
    pc = "lists" =>
        \A s \in 1..Len(prev) : \A e \in (s + 1)..Len(prev) :
            EndsEarlyAt(s, e) =>
                /\ OnlyEntriesBefore(s, e)
                /\ PlaceOf(s) + 1 <= Len(tree)
                /\ IF IsPag(prev[e], "start")
                   THEN /\ IsNavList(tree[PlaceOf(s) + 1])
                        /\ PlaceOf(e) = PlaceOf(s) + 1
                   ELSE tree[PlaceOf(s) + 1] = WithoutNested(prev[e])

\* start, item, paragraph, item: a list of one entry, then the paragraph; the
\* second item made no entry and is gone
C8_Witness ==
    /\ pc = "lists"
    /\ \E s \in 1..(Len(prev) - 3) :
         /\ EndsEarlyAt(s, s + 2)
         /\ prev[s + 2].tag = "p"
         /\ IsEntryMarker(prev[s + 3])
         /\ IsNavList(tree[PlaceOf(s)])
         /\ Len(Entries(tree[PlaceOf(s)])) = 1
         /\ tree[PlaceOf(s) + 1] = prev[s + 2]
         /\ \A h \in 1..Len(Flatten(tree)) :
              Flatten(tree)[h].id \notin {prev[s + 3].id, Fresh(prev[s + 3].id)}

----------------------------------------------------------------------------
(* Table and list annotation                                               *)

\* the first sibling after position k whose tag is one of tags, 0 when none
FirstLater(seq, k, tags) ==
    LET later == {j \in (k + 1)..Len(seq) : seq[j].tag \in tags}
    IN IF later = {} THEN 0 ELSE CHOOSE j \in later : \A h \in later : j <= h

\* the eligible targets of a marker of the given kind
TargetTags(kind) == IF kind[1] = "table" THEN {"table"} ELSE {"ul", "ol"}

\* after is the target before with the annotation of the marker kind applied:
\* wrapped in a container of class table-responsive, or its class attribute set
\* to "table" / "table table-<kind>", or the list kind added to its classes
IsAnnotated(after, before, kind) ==
    IF kind = <<"table", "responsive">>
    THEN /\ after.tag = "div"
         /\ after.cls = << <<"table", "responsive">> >>
         /\ after.kids = <<before>>
    ELSE IF kind[1] = "table"
    THEN after = [before EXCEPT !.cls = IF kind = <<"table", "basic">>
                                        THEN << <<"table">> >>
                                        ELSE << <<"table">>, kind >>]
    ELSE after = [before EXCEPT !.cls = IF HasClass(before, kind) THEN @
                                        ELSE Append(@, kind)]

\* The marker before[k] is gone, its first later sibling target carries the
\* annotation, and every other sibling is as it was.
AnnotatedSiblings(before, after, k) ==
    LET kind == before[k].wet
        j == FirstLater(before, k, TargetTags(kind))
    IN /\ Len(after) = Len(before) - 1
       /\ \A h \in 1..Len(before) :
            h # k =>
                LET q == IF h < k THEN h ELSE h - 1
                IN IF h = j THEN IsAnnotated(after[q], before[h], kind)
                   ELSE after[q] = before[h]

\* The step for the marker id changed the forest in that way and in no other:
\* only the sibling list that holds the marker differs.
RECURSIVE StepAnnotates(_, _, _)
StepAnnotates(before, after, id) ==
    IF IndexOf(before, id) # 0
    THEN AnnotatedSiblings(before, after, IndexOf(before, id))
    ELSE /\ Len(after) = Len(before)
         /\ \A k \in 1..Len(before) :
              /\ [after[k] EXCEPT !.kids = before[k].kids] = before[k]
              /\ StepAnnotates(before[k].kids, after[k].kids, id)

(* C9. Table/list annotation target: the step for a table-family (resp.    *)
(* list-family) marker applies the annotation to the first table (resp.    *)
(* list) among the later siblings of the marker, adjacent or not, and to   *)
(* no other node; with no eligible later sibling the only change is the    *)
(* removal of the marker; the marker is removed in both cases.             *)
(* The code breaks it for table-responsive: the table is moved under the   *)
(* new wrapper before replaceWith runs, so the wrapper never enters the    *)
(* document and the table leaves it.                                       *)
C9_AnnotationTarget ==
    pc \in {"tables", "lists"} /\ last # 0 => StepAnnotates(prev, tree, last)

----------------------------------------------------------------------------
(* Running a pass again                                                    *)

\* snap[stage] is the forest the pass before that stage has just produced;
\* running that pass over it once more gives the same forest
RunTwiceSame ==
    /\ "tables" \in DOMAIN snap => alertPass(snap["tables"]) = snap["tables"]
    /\ "details" \in DOMAIN snap => tablePass(snap["details"]) = snap["details"]
    /\ "accordion" \in DOMAIN snap => buildDetails(snap["accordion"]) = snap["accordion"]
    /\ "pagination" \in DOMAIN snap =>
           buildAccordion(snap["pagination"]) = snap["pagination"]
    /\ "lists" \in DOMAIN snap => buildPagination(snap["lists"]) = snap["lists"]
    /\ "done" \in DOMAIN snap => listPass(snap["done"]) = snap["done"]

\* the containers of class table-responsive, anywhere in the forest, that hold
\* exactly the node n
WrappersOf(seq, n) ==
    {h \in 1..Len(Flatten(seq)) :
        /\ Flatten(seq)[h].tag = "div"
        /\ Flatten(seq)[h].cls = << <<"table", "responsive">> >>
        /\ Flatten(seq)[h].kids = <<n>>}

\* the step for a table-responsive marker that is immediately followed by a
\* table left exactly one wrapper, and that wrapper holds exactly that table
OneWrapper ==
    pc = "tables" /\ last # 0 =>
        \A k \in 1..(Len(prev) - 1) :
            /\ prev[k].id = last
            /\ IsMarker(prev[k], "table", "responsive")
            /\ prev[k + 1].tag = "table"
            => Cardinality(WrappersOf(tree, prev[k + 1])) = 1

(* C10. Per-pass idempotence: running any single pass (alerts, tables,     *)
(* details, accordion, pagination, lists) a second time over the forest it *)
(* has just produced changes nothing; in particular a table-responsive     *)
(* marker immediately followed by one table yields exactly one wrapper     *)
(* holding exactly that table, and a second run of the table pass adds no  *)
(* further wrapper.                                                        *)
(* The code breaks the particular case, as in C9: the table pass leaves no *)
(* wrapper at all and drops the table.                                     *)
C10_PerPassIdempotence == RunTwiceSame /\ OneWrapper

----------------------------------------------------------------------------
(* Alert extraction                                                        *)

\* the first paragraph, in document order, among the descendants of m
FirstParagraph(m) ==
    LET d == Flatten(m.kids)
        ps == {h \in 1..Len(d) : d[h].tag = "p"}
    IN IF ps = {} THEN <<>> ELSE <<d[CHOOSE h \in ps : \A g \in ps : h <= g]>>

\* n is the section that stands for the alert marker m
IsAlertOf(n, m) ==
    /\ n.tag = "section"
    /\ n.cls = << <<"alert">>, <<"alert", m.wet[2]>> >>
    /\ n.wet = <<>>
    /\ n.kids = FirstParagraph(m)

\* The step for the marker id put that section in the place of the marker and
\* changed nothing else in the forest.
RECURSIVE StepWraps(_, _, _)
StepWraps(before, after, id) ==
    /\ Len(after) = Len(before)
    /\ \A k \in 1..Len(before) :
         IF before[k].id = id THEN IsAlertOf(after[k], before[k])
         ELSE /\ [after[k] EXCEPT !.kids = before[k].kids] = before[k]
              /\ StepWraps(before[k].kids, after[k].kids, id)

\* the nodes of the forest that carry the identity id
Carrying(seq, id) == {h \in 1..Len(Flatten(seq)) : Flatten(seq)[h].id = id}

(* C11. Alert extraction: every alert-family marker is replaced, at its    *)
(* own position, by exactly one section classed alert alert-<kind> whose   *)
(* sole child is the first descendant paragraph of the marker; a marker    *)
(* with no paragraph yields an empty section; the marker node itself is    *)
(* absent afterwards.                                                      *)
C11_AlertExtraction ==
    pc = "alerts" /\ last # 0 =>
        /\ Carrying(prev, last) # {}
        /\ StepWraps(prev, tree, last)
        /\ Carrying(tree, last) = {}
        /\ Cardinality(Carrying(tree, Fresh(last))) = 1

\* a nested marker with two descendant paragraphs became a section that holds
\* the first of them only, and a marker with none became an empty section
C11_Witness ==
    /\ pc = "tables"
    /\ \E h \in 1..Len(Flatten(snap["alerts"])) : \E g \in 1..Len(Flatten(tree)) :
         LET m == Flatten(snap["alerts"])[h]
             n == Flatten(tree)[g]
         IN /\ InFamily(m, "alert")
            /\ Cardinality({d \in 1..Len(Flatten(m.kids)) :
                               Flatten(m.kids)[d].tag = "p"}) = 2
            /\ IsAlertOf(n, m) /\ Len(n.kids) = 1
    /\ \E h \in 1..Len(snap["alerts"]) : \E g \in 1..Len(tree) :
         /\ InFamily(snap["alerts"][h], "alert")
         /\ snap["alerts"][h].kids = <<>>
         /\ IsAlertOf(tree[g], snap["alerts"][h]) /\ tree[g].kids = <<>>
    /\ \A h \in 1..Len(Flatten(tree)) : ~InFamily(Flatten(tree)[h], "alert")

----------------------------------------------------------------------------
(* The command line process                                                *)

\* argument i is the value of an option: the argument before it is a flag
\* that is not itself the value of an option
RECURSIVE IsValue(_, _)
IsValue(argv, i) == i > 1 /\ argv[i - 1] \in Flags /\ ~IsValue(argv, i - 1)

\* the arguments that are neither a flag nor the value of one
Positionals(argv) == {i \in 1..Len(argv) : ~IsValue(argv, i) /\ argv[i] \notin Flags}

\* no input path is given: there is no positional argument, or the first one
\* is the empty string
NoInputGiven(argv) ==
    \/ Positionals(argv) = {}
    \/ argv[CHOOSE i \in Positionals(argv) : \A h \in Positionals(argv) : i <= h] = ""

Happened(what) == \E k \in 1..Len(proc.trace) : proc.trace[k] = what

\* reading, conversion, reconstruction or writing failed
Failed ==
    \/ Happened("read throws") \/ Happened("convert throws")
    \/ Happened("transform throws") \/ Happened("write throws")

\* the output was emitted: the one write is complete and holds what the
\* reconstruction returned
Emitted ==
    /\ Happened("transformed")
    /\ Len(proc.out) = 1 /\ proc.out[1].whole /\ proc.out[1].html = proc.html

(* C12. Exit codes: the process ends with status 2 when no input path is   *)
(* given, before any file read, conversion or reconstruction step starts;  *)
(* it ends with status 1 when reading, conversion, reconstruction or       *)
(* writing fails; it ends with status 0 only when the output was emitted;  *)
(* no run ends in any other status.                                        *)
C12_ExitCodes ==
    /\ proc.at # "exited" => proc.status = -1
    /\ proc.at = "exited" =>
         /\ proc.status \in {0, 1, 2}
         /\ NoInputGiven(proc.argv) <=> proc.status = 2
         /\ proc.status = 2 =>
               /\ proc.trace = <<"stderr usage">>
               /\ pc = "idle" /\ tree = <<>> /\ proc.html = <<>> /\ proc.out = <<>>
         /\ Failed <=> proc.status = 1
         /\ proc.status = 0 => Emitted

\* -o with its value and nothing else: the value is not taken for the input and
\* the run ended with status 2 after the usage line only
C12_Witness ==
    /\ proc.at = "exited" /\ proc.status = 2
    /\ proc.argv = <<"-o", "in.docx">>
    /\ proc.trace = <<"stderr usage">>

----------------------------------------------------------------------------
(* Marker lifecycle                                                        *)

\* the marker family the pass at stage st consumes
FamilyOf(st) ==
    CASE st = "alerts" -> "alert"
      [] st = "tables" -> "table"
      [] st = "lists" -> "list"
      [] OTHER -> st

\* the node is nowhere in the forest
GoneFrom(seq, n) == \A h \in 1..Len(Flatten(seq)) : Flatten(seq)[h].id # n.id

\* a top-level marker that the running pass makes disappear belongs to the
\* family of that pass (with lenient: or is a marker of another family that
\* lies in an accordion scope that has a current item, while buildAccordion
\* runs), and the last pass leaves no top-level marker
ConsumedByOwnPass(lenient) ==
    /\ \A k \in 1..Len(tree) :
         IsFamilyMarker(tree[k]) /\ GoneFrom(tree', tree[k]) =>
            \/ tree[k].wet[1] = FamilyOf(pc)
            \/ lenient /\ pc = "accordion" /\ Swallowed(tree, k)
    /\ pc' = "done" => \A k \in 1..Len(tree') : ~IsFamilyMarker(tree'[k])

(* C13 as stated. Marker lifecycle: each marker node of the input sequence *)
(* is consumed exactly once and by the builder pass of its own family; no  *)
(* pass removes or rewrites a marker that belongs to another family.       *)
C13_MarkerLifecycleOriginal == [][ConsumedByOwnPass(FALSE)]_vars

(* C13 as amended: the same, except that buildAccordion consumes, as panel *)
(* text of the current item, every pagination or list marker that lies in  *)
(* an accordion scope that has a current item and has not met its          *)
(* accordion-end; such a marker never reaches the pass of its own family.  *)
C13_MarkerLifecycle ==
    [][/\ ConsumedByOwnPass(TRUE)
       /\ pc = "accordion" =>
             \A k \in 1..Len(tree) :
                IsFamilyMarker(tree[k]) /\ Swallowed(tree, k) => GoneFrom(tree', tree[k])]_vars

\* buildAccordion has just run: a list or pagination marker that followed a
\* panel is inside the container now, one that followed the start marker
\* directly would still be a child of <main>
C13_Witness ==
    /\ pc = "pagination"
    /\ \E k \in 1..Len(prev) :
         /\ IsFamilyMarker(prev[k]) /\ prev[k].wet[1] \in {"list", "pagination"}
         /\ Swallowed(prev, k)
         /\ GoneFrom(tree, prev[k])
         /\ MovedIntoContainer(prev[k])

----------------------------------------------------------------------------
(* Stray details content                                                   *)

\* seq[k] is a details-content marker outside the run that directly follows a
\* details-summary: no summary comes before it among its siblings, or some
\* node that is not a details-content lies between the summary and it
IsStrayAt(seq, k) ==
    /\ IsMarker(seq[k], "details", "content")
    /\ ~\E s \in 1..(k - 1) :
          /\ IsMarker(seq[s], "details", "summary")
          /\ \A h \in (s + 1)..(k - 1) : IsMarker(seq[h], "details", "content")

\* the stray details-content markers of the forest, at any depth
RECURSIVE Strays(_)
Strays(seq) ==
    {seq[k] : k \in {h \in 1..Len(seq) : IsStrayAt(seq, h)}}
    \cup UNION {Strays(seq[k].kids) : k \in 1..Len(seq)}

\* neither the node, nor a node built from it, nor any of its text is in the forest
NowhereIn(seq, n) ==
    \A h \in 1..Len(Flatten(seq)) :
        LET o == Flatten(seq)[h]
        IN /\ o.id \notin {n.id, Fresh(n.id), Fresh2(n.id), Fresh3(n.id)}
           /\ \A i \in 1..Len(o.txt) : \A g \in 1..Len(TextOf(n)) :
                o.txt[i] # TextOf(n)[g]

(* C14. Stray details content is dropped: a details-content marker that is *)
(* not part of the contiguous run directly following a details-summary is  *)
(* removed by the sweep at the end of buildDetails, and its content is in  *)
(* no disclosure element and nowhere else in the output.                   *)
C14_StrayContentDropped ==
    pc = "accordion" => \A n \in Strays(prev) : NowhereIn(tree, n)

\* summary, content, paragraph, content: the disclosure element holds the first
\* content only, the second one is gone; so is a stray nested in another node
C14_Witness ==
    /\ pc = "accordion"
    /\ \E s \in 1..(Len(prev) - 3) :
         /\ IsMarker(prev[s], "details", "summary")
         /\ IsMarker(prev[s + 1], "details", "content")
         /\ prev[s + 2].tag = "p"
         /\ prev[s + 3] \in Strays(prev)
         /\ IndexOf(tree, Fresh(prev[s].id)) # 0
         /\ Len(tree[IndexOf(tree, Fresh(prev[s].id))].kids) = 2
         /\ NowhereIn(tree, prev[s + 3])
    /\ \E k \in 1..Len(prev) :
         /\ prev[k].kids # <<>> /\ prev[k].kids[1] \in Strays(prev)
         /\ IndexOf(tree, prev[k].id) # 0
         /\ tree[IndexOf(tree, prev[k].id)].kids = <<>>

----------------------------------------------------------------------------
(* The builders as one left-to-right pass over an immutable snapshot that  *)
(* emits a fresh list: the index jumps past what a block consumed, nothing *)
(* is spliced and nothing is read again.                                   *)

RECURSIVE RefDetails(_, _)
RefDetails(seq, i) ==
    IF i > Len(seq) THEN <<>>
    ELSE IF IsMarker(seq[i], "details", "summary")
    THEN LET j == RunStop(seq, i)
         IN <<Node(Fresh(seq[i].id), "details", <<>>, <<>>, {}, <<>>,
                   <<Summary(seq[i])>> \o [k \in 1..(j - i - 1) |-> Para(seq[i + k])])>>
            \o RefDetails(seq, j)
    ELSE <<seq[i]>> \o RefDetails(seq, i + 1)

RECURSIVE RefAccordionScan(_, _, _, _)
RefAccordionScan(seq, j, items, start) ==
    IF j > Len(seq) \/ IsAcc(seq[j], "end") THEN [j |-> j, items |-> items]
    ELSE IF IsAcc(seq[j], "heading")
    THEN RefAccordionScan(seq, j + 1, Append(items, HeadingItem(seq[j])), start)
    ELSE IF items = <<>> /\ IsAcc(seq[j], "panel")
    THEN RefAccordionScan(seq, j + 1,
                          <<[DefaultItem(start) EXCEPT !.kids = Append(@, Para(seq[j]))]>>,
                          start)
    ELSE IF items # <<>>
    THEN RefAccordionScan(seq, j + 1,
                          [items EXCEPT ![Len(items)].kids = Append(@, Para(seq[j]))],
                          start)
    ELSE [j |-> j, items |-> items]

RECURSIVE RefAccordion(_, _)
RefAccordion(seq, i) ==
    IF i > Len(seq) THEN <<>>
    ELSE IF IsAcc(seq[i], "start")
    THEN LET r == RefAccordionScan(seq, i + 1, <<>>, seq[i])
             after == IF r.j <= Len(seq) /\ IsAcc(seq[r.j], "end") THEN r.j + 1 ELSE r.j
         IN <<Node(Fresh(seq[i].id), "section", <<>>, << <<"wb", "accordion">> >>, {},
                   <<>>, r.items)>>
            \o RefAccordion(seq, after)
    ELSE <<seq[i]>> \o RefAccordion(seq, i + 1)

RECURSIVE RefEntries(_, _)
RefEntries(seq, j) ==
    IF j > Len(seq) \/ ~IsEntryMarker(seq[j]) THEN [j |-> j, entries |-> <<>>]
    ELSE LET r == RefEntries(seq, j + 1)
             e == IF IsPag(seq[j], "active") THEN ActiveEntry(seq[j])
                  ELSE IF IsPag(seq[j], "disabled") THEN DisabledEntry(seq[j])
                  ELSE ItemEntry(seq[j])
         IN [j |-> r.j, entries |-> <<e>> \o r.entries]

RECURSIVE RefPagination(_, _)
RefPagination(seq, i) ==
    IF i > Len(seq) THEN <<>>
    ELSE IF IsPag(seq[i], "start")
    THEN LET r == RefEntries(seq, i + 1)
             after == IF r.j <= Len(seq) /\ IsPag(seq[r.j], "end") THEN r.j + 1 ELSE r.j
         IN <<Node(Fresh(seq[i].id), "nav", <<>>, <<>>, {<<"aria-label", "Pagination">>},
                   <<>>,
                   <<Node(Fresh2(seq[i].id), "ul", <<>>, << <<"pagination">> >>, {},
                          <<>>, r.entries)>>)>>
            \o RefPagination(seq, after)
    ELSE <<seq[i]>> \o RefPagination(seq, i + 1)

\* every top-level marker a-b of prev was processed once: the marker is gone and
\* the forest holds exactly one node built from it
ProcessedOnce(a, b) ==
    \A s \in 1..Len(prev) :
        IsMarker(prev[s], a, b) =>
            /\ GoneFrom(tree, prev[s])
            /\ Cardinality(Carrying(tree, Fresh(prev[s].id))) = 1

(* C15. Re-snapshot equivalence: each in-place builder (buildDetails,      *)
(* buildAccordion, buildPagination), which splices the live sequence and   *)
(* reads it again after every edit before its index goes up by one, gives  *)
(* the same final sequence as one left-to-right pass over an immutable     *)
(* snapshot that emits a fresh list; no details-summary, accordion-start   *)
(* or pagination-start at top level is skipped or processed twice.         *)
C15_ResnapshotEquivalence ==
    /\ pc = "accordion" =>
         /\ DetailsLoop(prev, prev, 1) = RefDetails(prev, 1)
         /\ tree = SweepMarker(RefDetails(prev, 1), "details", "content")
         /\ ProcessedOnce("details", "summary")
    /\ pc = "pagination" =>
         /\ AccordionLoop(prev, prev, 1) = RefAccordion(prev, 1)
         /\ tree = SweepFamily(RefAccordion(prev, 1), "accordion")
         /\ ProcessedOnce("accordion", "start")
    /\ pc = "lists" =>
         /\ PaginationLoop(prev, prev, 1) = RefPagination(prev, 1)
         /\ tree = SweepFamily(RefPagination(prev, 1), "pagination")
         /\ ProcessedOnce("pagination", "start")

\* two blocks that follow each other directly, summary, content, summary,
\* content, became two disclosure elements of one paragraph each
C15_Witness ==
    /\ pc = "accordion"
    /\ Len(prev) >= 4 /\ Len(tree) >= 2
    /\ IsMarker(prev[1], "details", "summary") /\ IsMarker(prev[2], "details", "content")
    /\ IsMarker(prev[3], "details", "summary") /\ IsMarker(prev[4], "details", "content")
    /\ tree[1].tag = "details" /\ Len(tree[1].kids) = 2
    /\ tree[2].tag = "details" /\ Len(tree[2].kids) = 2
    /\ tree[2].id = Fresh(prev[3].id)

----------------------------------------------------------------------------
(* Output ordering                                                         *)

\* the positions of the trace where the output destination is written, or the
\* write is tried and throws
Writes == {k \in 1..Len(proc.trace) : proc.trace[k] \in {"write", "write throws"}}
\* the positions where a converter warning goes to the error stream
WarningLines ==
    {k \in 1..Len(proc.trace) : proc.trace[k] \in {"stderr header", "stderr message"}}
Before(what, k) == \E h \in 1..(k - 1) : proc.trace[h] = what

(* C16. Output ordering: the output destination is written at most once    *)
(* per run, and only after the converter call and the whole reconstruction *)
(* have completed; converter warnings go to the error stream before the    *)
(* output and never prevent the output from being written; when reading,   *)
(* conversion or reconstruction fails, nothing is written to the output    *)
(* destination.                                                            *)
C16_OutputOrdering ==
    /\ Len(proc.out) <= 1 /\ Cardinality(Writes) <= 1
    /\ proc.out # <<>> => Writes # {}
    /\ \A k \in Writes : Before("convert", k) /\ Before("transformed", k)
    /\ proc.out # <<>> => pc = "idle" /\ proc.out[1].html = proc.html
    /\ \A w \in WarningLines : \A k \in Writes : w < k
    /\ Cardinality(WarningLines) \in {0, proc.messages + 1}
    /\ proc.at = "warned" => ENABLED Write
    /\ proc.at = "exited" /\ WarningLines # {} => Writes # {}
    /\ Happened("read throws") \/ Happened("convert throws") \/ Happened("transform throws")
         => proc.out = <<>> /\ Writes = {}

\* a run with a converter warning that ended with status 0: the header and the
\* warning are on the error stream, then comes the one write
C16_Witness ==
    /\ proc.at = "exited" /\ proc.status = 0
    /\ proc.messages = 1
    /\ proc.trace = <<"read", "convert", "transform", "transformed",
                      "stderr header", "stderr message", "write">>
    /\ Len(proc.out) = 1 /\ proc.out[1].whole

----------------------------------------------------------------------------
(* Pass ordering                                                           *)

StageIndex(st) == CHOOSE k \in 1..Len(Stages) : Stages[k] = st

\* no child of <main> is a marker of the family
NoTopLevel(seq, fam) == \A k \in 1..Len(seq) : ~InFamily(seq[k], fam)

\* every marker of the forest after the step was a marker, the same node, of
\* the forest before it
NoMarkerCreated ==
    \A h \in 1..Len(Flatten(tree')) :
        IsFamilyMarker(Flatten(tree')[h]) =>
            \E g \in 1..Len(Flatten(tree)) :
                /\ Flatten(tree)[g].id = Flatten(tree')[h].id
                /\ Flatten(tree)[g].wet = Flatten(tree')[h].wet

(* C17. Pass ordering: the passes run strictly in the order alerts,        *)
(* tables, details, accordion, pagination, lists, each starting only after *)
(* the one before it has finished; at the moment a pass finishes no        *)
(* top-level marker of its family remains among the children of <main>,    *)
(* and no pass creates a marker of any family.                             *)
C17_PassOrdering ==
    [][/\ pc' # pc =>
            /\ StageIndex(pc') = StageIndex(pc) + 1
            /\ NoTopLevel(tree', FamilyOf(pc))
            /\ \A k \in 1..StageIndex(pc) : NoTopLevel(tree', FamilyOf(Stages[k]))
       /\ tree' # tree =>
            \A k \in 1..(StageIndex(pc) - 1) : NoTopLevel(tree, FamilyOf(Stages[k]))
       /\ NoMarkerCreated]_vars

\* all six passes have run in turn over an input whose children held markers of
\* three families; none of them is a child of <main> any more
C17_Witness ==
    /\ pc = "done"
    /\ DOMAIN snap = {Stages[k] : k \in 1..Len(Stages)}
    /\ Cardinality({snap["alerts"][k].wet[1] :
                        k \in {h \in 1..Len(snap["alerts"]) :
                                  IsFamilyMarker(snap["alerts"][h])}}) = 3
    /\ \A k \in 1..Len(tree) : ~IsFamilyMarker(tree[k])

----------------------------------------------------------------------------
(* Table marker stacking                                                   *)

IsClassMarker(n) ==
    n.tag = "div" /\ Len(n.wet) = 2 /\ n.wet[1] = "table"
    /\ n.wet[2] \in {"basic", "striped", "bordered", "hover", "condensed"}
IsResponsiveMarker(n) == IsMarker(n, "table", "responsive")

\* the class string a class-type marker stands for
ClassString(kind) ==
    IF kind = <<"table", "basic">> THEN << <<"table">> >> ELSE << <<"table">>, kind >>

\* the table-family markers among seq[lo..hi]
MarkersIn(seq, lo, hi) == {m \in lo..hi : InFamily(seq[m], "table")}

\* seq[a] and seq[b], a before b, are the two table markers that precede the
\* table seq[t] with no other table between them and it
TwoMarkersBefore(seq, a, b, t) ==
    /\ a < b /\ b < t /\ t <= Len(seq)
    /\ seq[t].tag = "table"
    /\ \A h \in 1..(t - 1) : seq[h].tag # "table"
    /\ MarkersIn(seq, 1, t - 1) = {a, b}

\* the table n is a child of <main>, with class string cls
TopLevelWithClass(seq, n, cls) == IndexOf(seq, n.id) # 0 /\ seq[IndexOf(seq, n.id)].cls = cls

\* the table n, with class string cls, is the only child of exactly one wrapper,
\* which is a child of <main>
WrappedWithClass(seq, n, cls) ==
    Cardinality({k \in 1..Len(seq) :
                    /\ seq[k].tag = "div"
                    /\ seq[k].cls = << <<"table", "responsive">> >>
                    /\ Len(seq[k].kids) = 1
                    /\ seq[k].kids[1].id = n.id
                    /\ seq[k].kids[1].cls = cls}) = 1

(* C18. Table marker stacking is order dependent: when two table markers   *)
(* precede the same table with no other table between them, (a) two        *)
(* class-type markers leave the table with the class string of the later   *)
(* marker only, (b) a class-type marker followed by table-responsive       *)
(* leaves the table with the class and inside one wrapper, and (c)         *)
(* table-responsive followed by a class-type marker leaves the wrapped     *)
(* table without the class, and the class goes to the next later sibling   *)
(* table if there is one.                                                  *)
(* The code breaks (b) and (c), as in C9: no wrapper is ever put into the  *)
(* document and the table is dropped.                                      *)
C18_TableMarkerStacking ==
    pc = "details" =>
        LET inp == snap["tables"]
        IN \A a \in 1..Len(inp) : \A b \in 1..Len(inp) : \A t \in 1..Len(inp) :
            TwoMarkersBefore(inp, a, b, t) =>
                /\ IsClassMarker(inp[a]) /\ IsClassMarker(inp[b]) =>
                      TopLevelWithClass(tree, inp[t], ClassString(inp[b].wet))
                /\ IsClassMarker(inp[a]) /\ IsResponsiveMarker(inp[b]) =>
                      WrappedWithClass(tree, inp[t], ClassString(inp[a].wet))
                /\ IsResponsiveMarker(inp[a]) /\ IsClassMarker(inp[b]) =>
                      /\ WrappedWithClass(tree, inp[t], inp[t].cls)
                      /\ \A u \in (t + 1)..Len(inp) :
                           (/\ inp[u].tag = "table"
                            /\ \A h \in (t + 1)..(u - 1) :
                                 inp[h].tag # "table" /\ ~InFamily(inp[h], "table"))
                           => TopLevelWithClass(tree, inp[u], ClassString(inp[b].wet))

----------------------------------------------------------------------------
(* Termination of the builders                                             *)

\* what stopped the inner scan: the end of the snapshot, the end marker, or a
\* node the scan does not take
ScanStopped ==
    \/ loop.j > Len(loop.nodes)
    \/ pc \in {"accordion", "pagination"} /\ IsMarker(loop.nodes[loop.j], pc, "end")
    \/ pc = "details" /\ ~IsMarker(loop.nodes[loop.j], "details", "content")
    \/ pc = "accordion" /\ loop.cur = 0 /\ ~IsAccItem(loop.nodes[loop.j])
    \/ pc = "pagination" /\ ~IsEntryMarker(loop.nodes[loop.j])

\* One step of a builder: the children of <main> and the snapshot do not grow;
\* an outer iteration ends with i one higher, whether it opened a block or
\* not; the inner index goes up by one at every node it takes and stops only
\* at the end marker, a terminating node or the end of the snapshot.
LoopStep ==
    /\ Len(tree') <= Len(tree)
    /\ loop.at # "idle" /\ loop'.at # "idle" => Len(loop'.nodes) <= Len(loop.nodes)
    /\ loop.at = "outer" /\ loop'.at = "outer" => loop'.i = loop.i + 1
    /\ loop.at = "outer" /\ loop'.at = "inner" =>
          loop'.i = loop.i /\ loop'.j = loop.i + 1
    /\ loop.at = "inner" /\ loop'.at = "inner" =>
          loop'.i = loop.i /\ loop'.j = loop.j + 1
    /\ loop.at = "inner" /\ loop'.at = "close" =>
          loop'.i = loop.i /\ loop'.j = loop.j /\ ScanStopped
    /\ loop.at = "close" => loop'.at = "outer" /\ loop'.i = loop.i + 1
    /\ loop.at = "inner" => loop'.at \in {"inner", "close"}
    /\ loop.at = "outer" /\ loop'.at = "idle" => loop.i > Len(loop.nodes)

(* C19. Termination: for every finite top-level sibling sequence each      *)
(* builder pass terminates; during a pass the number of top-level siblings *)
(* never increases, the outer index strictly increases on every iteration, *)
(* and the inner scan index strictly increases until it reaches the end    *)
(* marker, a terminating node or the end of the sequence.                  *)
C19_Termination == [][LoopStep]_vars /\ <>(pc = "lists" /\ loop.at = "idle")

\* buildAccordion is at the test of its inner loop for the third time, two
\* nodes taken, with fewer children of <main> than in the snapshot
C19_Witness ==
    /\ pc = "accordion" /\ loop.at = "inner"
    /\ loop.j = loop.i + 3
    /\ Len(tree) = Len(loop.nodes) - 2
    /\ Len(loop.acc) = 2

----------------------------------------------------------------------------
(* Order and frame preservation                                            *)

\* a container of class table-responsive that holds one table
IsWrapper(n) ==
    /\ n.tag = "div" /\ n.cls = << <<"table", "responsive">> >>
    /\ Len(n.kids) = 1 /\ n.kids[1].tag = "table"

\* The input child of <main> an output child comes from: the node itself, the
\* marker the structure was built from, or the table a wrapper holds; 0 when
\* there is none.
Origin(inp, n) ==
    IF IndexOf(inp, n.id) # 0 THEN IndexOf(inp, n.id)
    ELSE IF \E k \in 1..Len(inp) : IsFamilyMarker(inp[k]) /\ Fresh(inp[k].id) = n.id
    THEN CHOOSE k \in 1..Len(inp) : IsFamilyMarker(inp[k]) /\ Fresh(inp[k].id) = n.id
    ELSE IF IsWrapper(n) THEN IndexOf(inp, n.kids[1].id)
    ELSE 0

\* the node is still a child of <main>, or the only child of a wrapper that is
SurvivesIn(seq, n) ==
    \/ IndexOf(seq, n.id) # 0
    \/ \E k \in 1..Len(seq) : IsWrapper(seq[k]) /\ seq[k].kids[1].id = n.id

\* when buildAccordion starts, the node lies in an accordion scope that has a
\* current item
InItemScope(n) ==
    /\ IndexOf(snap["accordion"], n.id) # 0
    /\ Swallowed(snap["accordion"], IndexOf(snap["accordion"], n.id))

(* C20. Order and frame preservation: across the whole transform, every    *)
(* top-level node that is not a marker and does not lie inside an          *)
(* accordion scope that has a current item is neither removed nor          *)
(* reordered; the surviving top-level nodes keep the relative order they   *)
(* had in the input, each built structure (alert section, disclosure       *)
(* element, accordion container, navigation container, table wrapper) in   *)
(* the position of the marker or target it replaces.                       *)
(* The code breaks it, as in C9: the target of a table-responsive marker   *)
(* is removed and no wrapper takes its position.                           *)
C20_OrderAndFrame ==
    pc = "done" =>
        LET inp == snap["alerts"]
        IN /\ \A k \in 1..Len(inp) :
                ~IsFamilyMarker(inp[k]) /\ ~InItemScope(inp[k]) => SurvivesIn(tree, inp[k])
           /\ \A a \in 1..Len(tree) : Origin(inp, tree[a]) # 0
           /\ \A a \in 1..Len(tree) : \A b \in (a + 1)..Len(tree) :
                Origin(inp, tree[a]) < Origin(inp, tree[b])

====
